---- MODULE Spec2Model ----
(***************************************************************************)
(* A model of train/comms/pt/comms_utils.py: the name normalisation        *)
(* (paramToCommName), the tensor-staging dispatcher (paramCommsBench        *)
(* .prepComm and its _prep_* strategies), the data-validation checker       *)
(* (paramCommsBench.dcheck), the bandwidth helper getAlgBW and the stream   *)
(* guard paramStreamGuard.                                                  *)
(*                                                                         *)
(* Python strings are sequences of one-character strings, so that lower()  *)
(* and isalpha() act character by character as they do in the source.      *)
(* Python's None is the sentinel None (for names) or NoneSplit (for split  *)
(* lists).  A tensor is the record of the backend call that produced it.   *)
(***************************************************************************)
EXTENDS Integers, Sequences, FiniteSets, TLC

VARIABLES
    \* ---- paramToCommName, called twice in a row
    nmCall1,        \* first call: [name, supported_comms]
    nmRet1,         \* its outcome: [new_name, exited, msg]
    nmCall2,        \* second call
    nmRet2,
    \* ---- paramCommsBench.prepComm
    collectiveFunc, \* backendFuncs.collectiveFunc.keys()
    world_size,     \* collectiveArgs.world_size
    src_ranks,      \* collectiveArgs.src_ranks
    ipTensor_split, \* collectiveArgs.ipTensor_split
    opTensor_split, \* collectiveArgs.opTensor_split
    prepCall,       \* last prepComm call: [called, curComm, commsParams, allocate]
    prepRet,        \* its outcome: [exited, msg, ipTensor, opTensor]
    allocLog,       \* backend allocation calls made by the last prepComm call
    prepPrev,       \* the call before it: [call, ret, collectiveArgs], with
                    \* collectiveArgs as that call left it
    \* ---- paramCommsBench.dcheck after a staged collective
    ckCfg,          \* the run: [collective, dtype, ws, rank, srcOrDst, dst_ranks, numel]
    ckPc,           \* "start", "staged", "done" (collective finished), "checked"
    ckStaged,       \* the buffers prepComm staged: [ipTensor, opTensor]
    ckOut,          \* the tensor handed to dcheck: [isList, dtype, data]
    ckFaults,       \* positions of ckOut that a faulty transport overwrote
    ckRes,          \* outcome of dcheck: [raised, skipped, pos, actual, expected]
    \* ---- getAlgBW
    bwCall,         \* [called, elapsedTimeNS, dataSize, numIters]
    bwRet,          \* [avgIterNS, algBW, raised]
    \* ---- paramStreamGuard
    sgCur,          \* the backend's current stream
    sgStack,        \* the guards whose blocks are open, innermost last
    sgExc,          \* whether an exception is propagating
    sgLast,         \* the last step: [op, guard, excBefore]
    \* ---- checkQuantArgs
    qaCall,         \* [called, collective, dtype, beginSize, quant_a2a_embedding_dim, blockingFlag]
    qaRet,          \* [raised, warned, msg]
    \* ---- backendFunctions.getBusBW
    busCall,        \* [called, collective, algBW, world_size]
    busRet,         \* [busBW, raised, logged]
    \* ---- getSizes
    szCall,         \* [called, beginSize, endSize, stepFactor, stepBytes]
    szRet,          \* allSizes
    \* ---- fixBeginSize
    fbCall,         \* [called, commsParams, world_size]
    fbRet,          \* [commsParams, raised]
    \* ---- parseRankList
    rlCall,         \* [called, ipStr, world_size]
    rlRet,          \* [outcome, rankList]
    \* ---- paramTimer, paramProfile
    tmTimer,        \* the paramTimer object
    tmHist,         \* what was asked of it since the last reset: [base, sum, incrs, blocks]
    tmClock,        \* time.monotonic(), in ns
    tmProf,         \* the open paramProfile blocks, innermost last
    tmLast,         \* the last block that ended: [ended, exc, timed]
    \* ---- setTensorVal
    stCall,         \* [called, self, tensor, useRandVal, rand]
    stRet           \* [tensor, raised]

nameVars == <<nmCall1, nmRet1, nmCall2, nmRet2>>
prepVars == <<collectiveFunc, world_size, src_ranks, ipTensor_split,
              opTensor_split, prepCall, prepRet, allocLog, prepPrev>>
checkVars == <<ckCfg, ckPc, ckStaged, ckOut, ckFaults, ckRes>>
bwVars == <<bwCall, bwRet>>
guardVars == <<sgCur, sgStack, sgExc, sgLast>>
quantVars == <<qaCall, qaRet>>
busVars == <<busCall, busRet>>
sizesVars == <<szCall, szRet>>
fixVars == <<fbCall, fbRet>>
rankVars == <<rlCall, rlRet>>
timerVars == <<tmTimer, tmHist, tmClock, tmProf, tmLast>>
valVars == <<stCall, stRet>>
utilVars == <<quantVars, busVars, sizesVars, fixVars, rankVars, timerVars, valVars>>
vars == <<nameVars, prepVars, checkVars, bwVars, guardVars, utilVars>>

----------------------------------------------------------------------------
(* Strings *)

\* Python None where a name is expected.
None == <<"None">>

LowerLetters ==
    <<"a", "b", "c", "d", "e", "f", "g", "h", "i", "j", "k", "l", "m",
      "n", "o", "p", "q", "r", "s", "t", "u", "v", "w", "x", "y", "z">>

UpperLetters ==
    <<"A", "B", "C", "D", "E", "F", "G", "H", "I", "J", "K", "L", "M",
      "N", "O", "P", "Q", "R", "S", "T", "U", "V", "W", "X", "Y", "Z">>

\* str.isalpha() on one character.
isalpha(c) ==
    \E i \in 1..26 : c = LowerLetters[i] \/ c = UpperLetters[i]

\* str.lower() on one character.
lowerChar(c) ==
    IF \E i \in 1..26 : c = UpperLetters[i]
    THEN LowerLetters[CHOOSE i \in 1..26 : c = UpperLetters[i]]
    ELSE c

\* str.upper() on one character (used only to spell requested names).
upperChar(c) ==
    IF \E i \in 1..26 : c = LowerLetters[i]
    THEN UpperLetters[CHOOSE i \in 1..26 : c = LowerLetters[i]]
    ELSE c

\* str.lower()
lower(s) == [i \in 1..Len(s) |-> lowerChar(s[i])]

\* "".join(x for x in s if x.isalpha())
alphaOnly(s) == SelectSeq(s, isalpha)

\* The characters of the string literals the source uses.
Chars(s) ==
    CASE s = "all_to_all" -> <<"a", "l", "l", "_", "t", "o", "_", "a", "l", "l">>
      [] s = "all_to_allv" -> <<"a", "l", "l", "_", "t", "o", "_", "a", "l", "l", "v">>
      [] s = "all_reduce" -> <<"a", "l", "l", "_", "r", "e", "d", "u", "c", "e">>
      [] s = "broadcast" -> <<"b", "r", "o", "a", "d", "c", "a", "s", "t">>
      [] s = "gather" -> <<"g", "a", "t", "h", "e", "r">>
      [] s = "all_gather" -> <<"a", "l", "l", "_", "g", "a", "t", "h", "e", "r">>
      [] s = "all_gather_base" -> <<"a", "l", "l", "_", "g", "a", "t", "h", "e", "r", "_", "b", "a", "s", "e">>
      [] s = "reduce" -> <<"r", "e", "d", "u", "c", "e">>
      [] s = "reduce_scatter" -> <<"r", "e", "d", "u", "c", "e", "_", "s", "c", "a", "t", "t", "e", "r">>
      [] s = "reduce_scatter_base" -> <<"r", "e", "d", "u", "c", "e", "_", "s", "c", "a", "t", "t", "e", "r", "_", "b", "a", "s", "e">>
      [] s = "scatter" -> <<"s", "c", "a", "t", "t", "e", "r">>
      [] s = "barrier" -> <<"b", "a", "r", "r", "i", "e", "r">>
      [] s = "incast" -> <<"i", "n", "c", "a", "s", "t">>
      [] s = "multicast" -> <<"m", "u", "l", "t", "i", "c", "a", "s", "t">>
      [] s = "noop" -> <<"n", "o", "o", "p">>
      [] s = "pt2pt" -> <<"p", "t", "2", "p", "t">>
      [] s = "wait" -> <<"w", "a", "i", "t">>
      [] s = "recv" -> <<"r", "e", "c", "v">>
      [] s = "alltoall" -> <<"a", "l", "l", "t", "o", "a", "l", "l">>
      [] s = "alltoallv" -> <<"a", "l", "l", "t", "o", "a", "l", "l", "v">>
      [] s = "alltoallbase" -> <<"a", "l", "l", "t", "o", "a", "l", "l", "b", "a", "s", "e">>
      [] s = "allreduce" -> <<"a", "l", "l", "r", "e", "d", "u", "c", "e">>
      [] s = "allgather" -> <<"a", "l", "l", "g", "a", "t", "h", "e", "r">>
      [] s = "allgatherbase" -> <<"a", "l", "l", "g", "a", "t", "h", "e", "r", "b", "a", "s", "e">>
      [] s = "reducescatter" -> <<"r", "e", "d", "u", "c", "e", "s", "c", "a", "t", "t", "e", "r">>
      [] s = "recvanysource" -> <<"r", "e", "c", "v", "a", "n", "y", "s", "o", "u", "r", "c", "e">>
      [] s = "all2all" -> <<"a", "l", "l", "2", "a", "l", "l">>
      [] s = "bogus" -> <<"b", "o", "g", "u", "s">>
      [] s = "" -> <<>>

\* The string literals prepComm and dcheck compare an operation name with.
OpLiterals ==
    {"all_to_all", "all_to_allv", "all_reduce", "broadcast", "gather",
     "all_gather", "all_gather_base", "reduce", "reduce_scatter",
     "reduce_scatter_base", "scatter", "barrier", "incast", "multicast",
     "noop", "pt2pt", "wait", "recv"}

LiteralOf ==
    [cs \in {Chars(s) : s \in OpLiterals} |->
        CHOOSE s \in OpLiterals : Chars(s) = cs]

\* The literal a character sequence spells; "" when it spells none of them.
Text(cs) == IF cs \in DOMAIN LiteralOf THEN LiteralOf[cs] ELSE ""

----------------------------------------------------------------------------
(* gracefulExit and paramToCommName *)

\* gracefulExit(args): logs args when it is not 0 and ends the process.
gracefulExit(args) == [exited |-> TRUE, msg |-> args]

\* The alias table with one canonical name misspelt: "alltoallbase" maps to
\* "alltoallv", itself an alias, instead of "all_to_allv".
AliasTable_misspelt ==
    { <<"alltoall", "all_to_all">>,
      <<"alltoallv", "all_to_allv">>,
      <<"alltoallbase", "alltoallv">>,
      <<"allreduce", "all_reduce">>,
      <<"allgather", "all_gather">>,
      <<"allgatherbase", "all_gather_base">>,
      <<"reducescatter", "reduce_scatter">>,
      <<"recvanysource", "recv">> }

AliasTable ==
    { <<"alltoall", "all_to_all">>,
      <<"alltoallv", "all_to_allv">>,
      <<"alltoallbase", "all_to_allv">>,
      <<"allreduce", "all_reduce">>,
      <<"allgather", "all_gather">>,
      <<"allgatherbase", "all_gather_base">>,
      <<"reducescatter", "reduce_scatter">>,
      <<"recvanysource", "recv">> }

name_aliases ==
    [k \in {Chars(p[1]) : p \in AliasTable} |->
        Chars((CHOOSE p \in AliasTable : Chars(p[1]) = k)[2])]

\* new_name as computed by lines 430-436.
aliasedName(name) ==
    LET stripped == alphaOnly(lower(name))
    IN  IF stripped \in DOMAIN name_aliases
        THEN name_aliases[stripped]
        ELSE name

\* The message of the fatal exit; it starts with the requested name.
unsupportedMsg(name) ==
    [name |-> name, text |-> "is not a supported communication in PARAM!"]

\* No message: the call returned.
NoMsg == [name |-> None, text |-> ""]

\* paramToCommName without the check against supported_comms.
paramToCommName_unchecked(name, supported_comms) ==
    [new_name |-> aliasedName(name), exited |-> FALSE, msg |-> NoMsg]

\* paramToCommName(name, supported_comms): supported_comms is a set of names,
\* or {None} standing for the default argument None.
paramToCommName(name, supported_comms) ==
    LET new_name == aliasedName(name)
    IN  IF supported_comms # {None} /\ new_name \notin supported_comms
        THEN [new_name |-> new_name]
             @@ gracefulExit(unsupportedMsg(name))
        ELSE [new_name |-> new_name, exited |-> FALSE,
              msg |-> NoMsg]

----------------------------------------------------------------------------
(* Requested names: the literals of the source and respellings of them *)

\* str.upper()
upper(s) == [i \in 1..Len(s) |-> upperChar(s[i])]

\* s with every "_" written "-".
hyphenated(s) == [i \in 1..Len(s) |-> IF s[i] = "_" THEN "-" ELSE s[i]]

BaseNames ==
    {Chars(s) : s \in OpLiterals \cup {"all2all", "bogus", ""}}
    \cup DOMAIN name_aliases

RequestedNames ==
    BaseNames
    \cup {upper(s) : s \in BaseNames}
    \cup {hyphenated(s) : s \in BaseNames}
    \cup {alphaOnly(s) : s \in BaseNames}

\* collectiveFunc.keys() of backendFunctions.__init__.
BaseComms ==
    {"all_to_all", "all_to_allv", "all_reduce", "broadcast", "gather",
     "all_gather", "all_gather_base", "reduce", "reduce_scatter",
     "reduce_scatter_base", "scatter", "barrier", "incast", "multicast",
     "noop"}

\* The names of a set of literals, as paramToCommName compares them.
Names(literals) == {Chars(s) : s \in literals}

----------------------------------------------------------------------------
(* paramToCommName called on two requests *)

NoNameCall == [called |-> FALSE, name |-> None, supported_comms |-> {None}]
NoNameRet == [new_name |-> None, exited |-> FALSE, msg |-> NoMsg]

NameInit ==
    /\ nmCall1 = NoNameCall
    /\ nmRet1 = NoNameRet
    /\ nmCall2 = NoNameCall
    /\ nmRet2 = NoNameRet

\* A first request: paramToCommName(n) or paramToCommName(n, supported_comms).
NameCall1(n, supp) ==
    /\ nmCall1' = [called |-> TRUE, name |-> n, supported_comms |-> supp]
    /\ nmRet1' = paramToCommName(n, supp)
    /\ nmCall2' = NoNameCall
    /\ nmRet2' = NoNameRet

\* A second request against the same supported set.
NameCall2(n) ==
    /\ nmCall2' = [called |-> TRUE, name |-> n,
                   supported_comms |-> nmCall1.supported_comms]
    /\ nmRet2' = paramToCommName(n, nmCall1.supported_comms)
    /\ UNCHANGED <<nmCall1, nmRet1>>

\* The second request is the name the first one returned.
NameCallAgain ==
    /\ nmCall1.called
    /\ ~nmCall2.called
    /\ ~nmRet1.exited
    /\ nmCall2' = [called |-> TRUE, name |-> nmRet1.new_name,
                   supported_comms |-> nmCall1.supported_comms]
    /\ nmRet2' = paramToCommName(nmRet1.new_name, nmCall1.supported_comms)
    /\ UNCHANGED <<nmCall1, nmRet1>>

----------------------------------------------------------------------------
(* Tensors and the backend's allocation calls *)

\* Largest inMsgSize / outMsgSize of a staged operation.
MaxMsg == 3
\* Largest collectiveArgs.world_size.
MaxWorld == 3

\* paramCommsBench.initVal
initVal == 1

Dtypes == {"float32", "bool"}

\* A tensor is the backend call that made it: id is the call's position among
\* the allocation calls of one prepComm call, numel its element count.
Tensor(id, fn, numel, dtype, scaleFactor) ==
    [id |-> id, fn |-> fn, numel |-> numel, dtype |-> dtype,
     scaleFactor |-> scaleFactor]

\* backendFunctions.alloc_ones: torch.ones(sizeArr, dtype), multiplied by
\* scaleFactor when that is not 1.0 (a bool tensor times a number is int64).
alloc_ones(id, sizeArr, dtype, scaleFactor) ==
    Tensor(id, "alloc_ones", sizeArr,
           IF scaleFactor # 1 /\ dtype = "bool" THEN "int64" ELSE dtype,
           scaleFactor)

\* backendFunctions.alloc_random (abstract): a tensor of unspecified values.
alloc_random(id, sizeArr, dtype, scaleFactor) ==
    Tensor(id, "alloc_random", sizeArr, dtype, scaleFactor)

\* The value of every element of a tensor made by alloc_ones.
onesValue(t) == IF t.scaleFactor # 1 THEN 1 * t.scaleFactor ELSE 1

\* A staged buffer: one tensor, or a Python list of tensors ([] included).
OneTensor(t) == [isList |-> FALSE, items |-> <<t>>]
TensorList(ts) == [isList |-> TRUE, items |-> ts]
EmptyList == TensorList(<<>>)

RECURSIVE SumNumel(_)
SumNumel(ts) == IF ts = <<>> THEN 0 ELSE Head(ts).numel + SumNumel(Tail(ts))

\* Total element count of a buffer, summed over a list.
TotalNumel(buf) == SumNumel(buf.items)

\* k tensors allocated one after the other, as `for _ in range(k): append(alloc(...))`.
allocLoop(log, k, fn, sizeArr, dtype, scaleFactor) ==
    [i \in 1..k |->
        IF fn = "alloc_ones"
        THEN alloc_ones(Len(log) + i, sizeArr, dtype, scaleFactor)
        ELSE alloc_random(Len(log) + i, sizeArr, dtype, scaleFactor)]

\* Python None where a split list is expected.
NoneSplit == <<-1>>

\* [v for _ in range(k)]
Repeat(v, k) == [i \in 1..k |-> v]

----------------------------------------------------------------------------
(* The staging strategies.  self is [log, ipTensor_split, opTensor_split,
   src_ranks, collectiveFunc]: the fields of the benchmark object, of its
   collectiveArgs and of its backend that staging reads or writes; log is the
   sequence of tensors the backend has allocated during the call.  Each
   strategy returns [self, ipTensor, opTensor]. *)

prep_all_to_allv(self, ipTensor, curComm, commsParams, numElementsIn, numElementsOut, world_size_, dtype, scaleFactor, allocate) ==
    LET t == alloc_random(Len(self.log) + 1, numElementsOut, dtype, scaleFactor)
        log1 == IF allocate THEN Append(self.log, t) ELSE self.log
        opTensor == IF allocate THEN OneTensor(t) ELSE EmptyList
    IN  [self |-> [self EXCEPT
                    !.log = log1,
                    !.opTensor_split =
                        IF curComm.outSplit # NoneSplit
                        THEN curComm.outSplit
                        ELSE Repeat(numElementsOut \div world_size_, world_size_),
                    !.ipTensor_split =
                        IF curComm.inSplit # NoneSplit
                        THEN curComm.inSplit
                        ELSE Repeat(numElementsIn \div world_size_, world_size_)],
         ipTensor |-> ipTensor,
         opTensor |-> opTensor]

\* _prep_all_to_all that stages random inputs whatever the validation flag.
prep_all_to_all_random(self, ipTensor, curComm, commsParams, numElementsIn, numElementsOut, world_size_, dtype, scaleFactor, allocate) ==
    IF ~allocate
    THEN [self |-> self, ipTensor |-> EmptyList, opTensor |-> EmptyList]
    ELSE
    LET ips == allocLoop(self.log, world_size_, "alloc_random",
                         numElementsIn \div world_size_,
                         commsParams.dtype, scaleFactor)
        log1 == self.log \o ips
        ops == allocLoop(log1, world_size_, "alloc_random",
                         numElementsOut \div world_size_, dtype, scaleFactor)
    IN  [self |-> [self EXCEPT !.log = log1 \o ops],
         ipTensor |-> TensorList(ips),
         opTensor |-> TensorList(ops)]

prep_all_to_all(self, ipTensor, curComm, commsParams, numElementsIn, numElementsOut, world_size_, dtype, scaleFactor, allocate) ==
    IF ~allocate
    THEN [self |-> self, ipTensor |-> EmptyList, opTensor |-> EmptyList]
    ELSE
    LET ips == IF commsParams.dcheck = 1
               THEN allocLoop(self.log, world_size_, "alloc_ones",
                              numElementsIn \div world_size_,
                              commsParams.dtype, initVal)
               ELSE allocLoop(self.log, world_size_, "alloc_random",
                              numElementsIn \div world_size_,
                              commsParams.dtype, scaleFactor)
        log1 == self.log \o ips
        ops == allocLoop(log1, world_size_, "alloc_random",
                         numElementsOut \div world_size_, dtype, scaleFactor)
    IN  [self |-> [self EXCEPT !.log = log1 \o ops],
         ipTensor |-> TensorList(ips),
         opTensor |-> TensorList(ops)]

\* _prep_all_gather with one flat output buffer instead of a list.
prep_all_gather_flat(self, ipTensor, curComm, commsParams, numElementsIn, numElementsOut, world_size_, dtype, scaleFactor, allocate) ==
    IF ~allocate
    THEN [self |-> self, ipTensor |-> ipTensor, opTensor |-> EmptyList]
    ELSE
    LET ip == IF commsParams.dcheck = 1
              THEN alloc_ones(Len(self.log) + 1, numElementsIn \div world_size_,
                              dtype, initVal)
              ELSE alloc_random(Len(self.log) + 1, numElementsIn \div world_size_,
                                dtype, scaleFactor)
        op == alloc_random(Len(self.log) + 2,
                           world_size_ * (numElementsIn \div world_size_),
                           dtype, scaleFactor)
    IN  [self |-> [self EXCEPT !.log = self.log \o <<ip, op>>],
         ipTensor |-> OneTensor(ip),
         opTensor |-> OneTensor(op)]

\* _prep_all_gather that attaches even splits, as _prep_all_to_allv does.
prep_all_gather_attachesSplits(self, ipTensor, curComm, commsParams, numElementsIn, numElementsOut, world_size_, dtype, scaleFactor, allocate) ==
    [self |-> [self EXCEPT
                !.opTensor_split = Repeat(numElementsOut \div world_size_, world_size_),
                !.ipTensor_split = Repeat(numElementsIn \div world_size_, world_size_)],
     ipTensor |-> ipTensor, opTensor |-> EmptyList]

prep_all_gather(self, ipTensor, curComm, commsParams, numElementsIn, numElementsOut, world_size_, dtype, scaleFactor, allocate) ==
    IF ~allocate
    THEN [self |-> self, ipTensor |-> ipTensor, opTensor |-> EmptyList]
    ELSE
    LET ip == IF commsParams.dcheck = 1
              THEN alloc_ones(Len(self.log) + 1, numElementsIn \div world_size_,
                              dtype, initVal)
              ELSE alloc_random(Len(self.log) + 1, numElementsIn \div world_size_,
                                dtype, scaleFactor)
        log1 == Append(self.log, ip)
        ops == allocLoop(log1, world_size_, "alloc_random",
                         numElementsIn \div world_size_, dtype, scaleFactor)
    IN  [self |-> [self EXCEPT !.log = log1 \o ops],
         ipTensor |-> OneTensor(ip),
         opTensor |-> TensorList(ops)]

prep_all_gather_base(self, ipTensor, curComm, commsParams, numElementsIn, numElementsOut, world_size_, dtype, scaleFactor, allocate) ==
    IF ~allocate
    THEN [self |-> self, ipTensor |-> ipTensor, opTensor |-> EmptyList]
    ELSE
    LET ip == IF commsParams.dcheck = 1
              THEN alloc_ones(Len(self.log) + 1, numElementsIn \div world_size_,
                              dtype, initVal)
              ELSE alloc_random(Len(self.log) + 1, numElementsIn \div world_size_,
                                dtype, scaleFactor)
        op == alloc_random(Len(self.log) + 2, numElementsIn, dtype, scaleFactor)
    IN  [self |-> [self EXCEPT !.log = self.log \o <<ip, op>>],
         ipTensor |-> OneTensor(ip),
         opTensor |-> OneTensor(op)]

\* _prep_incast that allocates whatever allocate says.
prep_incast_unguarded(self, ipTensor, curComm, commsParams, numElementsIn, numElementsOut, world_size_, dtype, scaleFactor, allocate) ==
    LET ops == allocLoop(self.log, Len(self.src_ranks), "alloc_random",
                         numElementsOut, dtype, scaleFactor)
    IN  [self |-> [self EXCEPT !.log = self.log \o ops],
         ipTensor |-> ipTensor,
         opTensor |-> TensorList(ops)]

prep_incast(self, ipTensor, curComm, commsParams, numElementsIn, numElementsOut, world_size_, dtype, scaleFactor, allocate) ==
    IF ~allocate
    THEN [self |-> self, ipTensor |-> ipTensor, opTensor |-> EmptyList]
    ELSE
    LET ops == allocLoop(self.log, Len(self.src_ranks), "alloc_random",
                         numElementsOut, dtype, scaleFactor)
    IN  [self |-> [self EXCEPT !.log = self.log \o ops],
         ipTensor |-> ipTensor,
         opTensor |-> TensorList(ops)]

\* _prep_reduce_scatter with an output of numElementsOut elements instead of
\* numElementsOut // world_size.
prep_reduce_scatter_whole(self, ipTensor, curComm, commsParams, numElementsIn, numElementsOut, world_size_, dtype, scaleFactor, allocate) ==
    IF ~allocate
    THEN [self |-> self, ipTensor |-> EmptyList, opTensor |-> EmptyList]
    ELSE
    LET ips == allocLoop(self.log, world_size_,
                         IF commsParams.dcheck = 1 THEN "alloc_ones" ELSE "alloc_random",
                         numElementsOut \div world_size_, commsParams.dtype,
                         IF commsParams.dcheck = 1 THEN initVal ELSE scaleFactor)
        log1 == self.log \o ips
        op == alloc_random(Len(log1) + 1, numElementsOut, dtype, scaleFactor)
    IN  [self |-> [self EXCEPT !.log = Append(log1, op)],
         ipTensor |-> TensorList(ips),
         opTensor |-> OneTensor(op)]

prep_reduce_scatter(self, ipTensor, curComm, commsParams, numElementsIn, numElementsOut, world_size_, dtype, scaleFactor, allocate) ==
    IF ~allocate
    THEN [self |-> self, ipTensor |-> EmptyList, opTensor |-> EmptyList]
    ELSE
    LET ips == IF commsParams.dcheck = 1
               THEN allocLoop(self.log, world_size_, "alloc_ones",
                              numElementsOut \div world_size_,
                              commsParams.dtype, initVal)
               ELSE allocLoop(self.log, world_size_, "alloc_random",
                              numElementsOut \div world_size_,
                              commsParams.dtype, scaleFactor)
        log1 == self.log \o ips
        op == alloc_random(Len(log1) + 1, numElementsOut \div world_size_,
                           dtype, scaleFactor)
    IN  [self |-> [self EXCEPT !.log = Append(log1, op)],
         ipTensor |-> TensorList(ips),
         opTensor |-> OneTensor(op)]

prep_reduce_scatter_base(self, ipTensor, curComm, commsParams, numElementsIn, numElementsOut, world_size_, dtype, scaleFactor, allocate) ==
    IF ~allocate
    THEN [self |-> self, ipTensor |-> EmptyList, opTensor |-> EmptyList]
    ELSE
    LET ip == IF commsParams.dcheck = 1
              THEN alloc_ones(Len(self.log) + 1, numElementsOut,
                              commsParams.dtype, initVal)
              ELSE alloc_random(Len(self.log) + 1, numElementsOut,
                                commsParams.dtype, scaleFactor)
        op == alloc_random(Len(self.log) + 2, numElementsOut \div world_size_,
                           dtype, scaleFactor)
    IN  [self |-> [self EXCEPT !.log = self.log \o <<ip, op>>],
         ipTensor |-> OneTensor(ip),
         opTensor |-> OneTensor(op)]

\* _prep_pt2pt that leaves the random output unscaled.
prep_pt2pt_unscaled(self, ipTensor, curComm, commsParams, numElementsIn, numElementsOut, world_size_, dtype, scaleFactor, allocate) ==
    IF ~allocate
    THEN [self |-> self, ipTensor |-> ipTensor, opTensor |-> EmptyList]
    ELSE
    LET op == alloc_random(Len(self.log) + 1, numElementsOut, dtype, 1)
    IN  [self |-> [self EXCEPT !.log = Append(self.log, op)],
         ipTensor |-> ipTensor,
         opTensor |-> OneTensor(op)]

prep_pt2pt(self, ipTensor, curComm, commsParams, numElementsIn, numElementsOut, world_size_, dtype, scaleFactor, allocate) ==
    IF ~allocate
    THEN [self |-> self, ipTensor |-> ipTensor, opTensor |-> EmptyList]
    ELSE
    LET op == alloc_random(Len(self.log) + 1, numElementsOut, dtype, scaleFactor)
    IN  [self |-> [self EXCEPT !.log = Append(self.log, op)],
         ipTensor |-> ipTensor,
         opTensor |-> OneTensor(op)]

----------------------------------------------------------------------------
(* prepComm *)

\* Names prepComm stages that the base backend does not register: a concrete
\* backend adds them to collectiveFunc.
ExtendedComms == BaseComms \cup {"pt2pt", "wait"}

\* prepComm that gives every operation an output buffer of its own.
prepComm_outOfPlace(self, curComm, commsParams, allocate) ==
    LET scaleFactor == curComm.outMsgSize * curComm.outMsgSize
        ip0 == alloc_random(Len(self.log) + 1, curComm.inMsgSize,
                            commsParams.dtype, scaleFactor)
        self1 == IF allocate THEN [self EXCEPT !.log = Append(self.log, ip0)]
                             ELSE self
        staged == prep_pt2pt(self1, IF allocate THEN OneTensor(ip0) ELSE EmptyList, curComm, commsParams, curComm.inMsgSize, curComm.outMsgSize, self.world_size, commsParams.dtype, scaleFactor, allocate)
    IN  [self |-> staged.self, exited |-> FALSE, msg |-> NoMsg,
         ipTensor |-> staged.ipTensor, opTensor |-> staged.opTensor]

\* paramCommsBench.prepComm(curComm, commsParams, allocate) on the object
\* state self; returns [self, exited, msg, ipTensor, opTensor].
prepComm(self, curComm, commsParams, allocate) ==
    LET r == paramToCommName(
                 IF curComm.comms # None THEN curComm.comms
                                         ELSE commsParams.collective,
                 Names(self.collectiveFunc))
        commOp == Text(r.new_name)
        numElementsIn == curComm.inMsgSize
        numElementsOut == curComm.outMsgSize
        world_size_ == self.world_size
        dtype == commsParams.dtype
        scaleFactor == numElementsOut * numElementsOut
        ip0 == IF commsParams.dcheck = 1
               THEN alloc_ones(Len(self.log) + 1, numElementsIn, dtype, initVal)
               ELSE alloc_random(Len(self.log) + 1, numElementsIn, dtype, scaleFactor)
        self1 == IF allocate THEN [self EXCEPT !.log = Append(self.log, ip0)]
                             ELSE self
        ipTensor == IF allocate THEN OneTensor(ip0) ELSE EmptyList
        staged ==
            CASE commOp = "all_to_allv" ->
                    prep_all_to_allv(self1, ipTensor, curComm, commsParams, numElementsIn, numElementsOut, world_size_, dtype, scaleFactor, allocate)
              [] commOp = "all_to_all" ->
                    prep_all_to_all(self1, ipTensor, curComm, commsParams, numElementsIn, numElementsOut, world_size_, dtype, scaleFactor, allocate)
              [] commOp \in {"all_gather", "gather"} ->
                    prep_all_gather(self1, ipTensor, curComm, commsParams, numElementsIn, numElementsOut, world_size_, dtype, scaleFactor, allocate)
              [] commOp = "all_gather_base" ->
                    prep_all_gather_base(self1, ipTensor, curComm, commsParams, numElementsIn, numElementsOut, world_size_, dtype, scaleFactor, allocate)
              [] commOp = "incast" ->
                    prep_incast(self1, ipTensor, curComm, commsParams, numElementsIn, numElementsOut, world_size_, dtype, scaleFactor, allocate)
              [] commOp \in {"reduce_scatter", "scatter"} ->
                    prep_reduce_scatter(self1, ipTensor, curComm, commsParams, numElementsIn, numElementsOut, world_size_, dtype, scaleFactor, allocate)
              [] commOp = "reduce_scatter_base" ->
                    prep_reduce_scatter_base(self1, ipTensor, curComm, commsParams, numElementsIn, numElementsOut, world_size_, dtype, scaleFactor, allocate)
              [] commOp = "pt2pt" ->
                    prep_pt2pt(self1, ipTensor, curComm, commsParams, numElementsIn, numElementsOut, world_size_, dtype, scaleFactor, allocate)
              [] OTHER ->
                    \* in-place case: opTensor = ipTensor
                    [self |-> self1, ipTensor |-> ipTensor, opTensor |-> ipTensor]
    IN  IF r.exited
        THEN [self |-> self, exited |-> TRUE, msg |-> r.msg,
              ipTensor |-> EmptyList, opTensor |-> EmptyList]
        ELSE IF commOp \in {"wait", "barrier"}
        THEN [self |-> self, exited |-> FALSE, msg |-> r.msg,
              ipTensor |-> EmptyList, opTensor |-> EmptyList]
        ELSE [self |-> staged.self, exited |-> FALSE, msg |-> r.msg,
              ipTensor |-> staged.ipTensor, opTensor |-> staged.opTensor]

----------------------------------------------------------------------------
(* The staging dispatcher as a state machine: one run stages one operation. *)

\* The names staging is asked for: every operation, some aliases and
\* respellings, and names no backend knows.
PrepNames ==
    {Chars(s) : s \in OpLiterals \ {"recv"}}
    \cup {Chars("alltoall"), Chars("reducescatter"), Chars("bogus"),
          upper(Chars("broadcast"))}

\* An uneven explicit split of total elements over k ranks.
ExplicitSplit(total, k) == [i \in 1..k |-> IF i = 1 THEN total ELSE 0]

NoPrepCall ==
    [called |-> FALSE,
     curComm |-> [comms |-> None, inMsgSize |-> 0, outMsgSize |-> 0,
                  inSplit |-> NoneSplit, outSplit |-> NoneSplit],
     commsParams |-> [collective |-> None, dtype |-> "float32", dcheck |-> 0],
     allocate |-> FALSE]

NoPrepRet ==
    [exited |-> FALSE, msg |-> NoMsg,
     ipTensor |-> EmptyList, opTensor |-> EmptyList]

\* No staging: the state of the dispatcher while another part is examined.
PrepIdle ==
    /\ collectiveFunc = BaseComms
    /\ world_size = 1
    /\ src_ranks = <<0>>
    /\ ipTensor_split = <<>>
    /\ opTensor_split = <<>>
    /\ prepCall = NoPrepCall
    /\ prepRet = NoPrepRet
    /\ allocLog = <<>>
    /\ prepPrev = [call |-> NoPrepCall, ret |-> NoPrepRet,
                   collectiveArgs |-> [world_size |-> world_size, src_ranks |-> src_ranks,
                                       ipTensor_split |-> <<>>, opTensor_split |-> <<>>]]

PrepInit ==
    /\ collectiveFunc \in {BaseComms, ExtendedComms}
    /\ world_size \in 1..MaxWorld
    /\ src_ranks \in {[i \in 1..k |-> i - 1] : k \in 1..world_size}
    /\ ipTensor_split = <<>>
    /\ opTensor_split = <<>>
    /\ prepCall = NoPrepCall
    /\ prepRet = NoPrepRet
    /\ allocLog = <<>>
    /\ prepPrev = [call |-> NoPrepCall, ret |-> NoPrepRet,
                   collectiveArgs |-> [world_size |-> world_size, src_ranks |-> src_ranks,
                                       ipTensor_split |-> <<>>, opTensor_split |-> <<>>]]

\* One call of prepComm.
PrepComm(curComm, commsParams, allocate) ==
    /\ LET self == [log |-> <<>>, world_size |-> world_size,
                    src_ranks |-> src_ranks, collectiveFunc |-> collectiveFunc,
                    ipTensor_split |-> ipTensor_split,
                    opTensor_split |-> opTensor_split]
       IN  \E r \in {prepComm(self, curComm, commsParams, allocate)} :
           /\ prepCall' = [called |-> TRUE, curComm |-> curComm,
                           commsParams |-> commsParams, allocate |-> allocate]
           /\ prepRet' = [exited |-> r.exited, msg |-> r.msg,
                          ipTensor |-> r.ipTensor, opTensor |-> r.opTensor]
           /\ allocLog' = r.self.log
           /\ world_size' = r.self.world_size
           /\ src_ranks' = r.self.src_ranks
           /\ ipTensor_split' = r.self.ipTensor_split
           /\ opTensor_split' = r.self.opTensor_split
    /\ prepPrev' = [call |-> prepCall, ret |-> prepRet,
                    collectiveArgs |-> [world_size |-> world_size, src_ranks |-> src_ranks,
                                        ipTensor_split |-> ipTensor_split,
                                        opTensor_split |-> opTensor_split]]
    /\ UNCHANGED collectiveFunc

\* How the request arrives: the benchmark names the operation in commsParams
\* and gives no splits; a replayed trace names it in curComm, with or without
\* explicit splits.
RequestModes == {"params", "curComm", "curCommSplits"}

\* dtype and the validation flag of a run.
RunModes == {<<"float32", 0>>, <<"float32", 1>>, <<"bool", 1>>}

PrepNext ==
    /\ ~prepCall.called
    /\ \E n \in PrepNames, mode \in RequestModes, i \in 0..MaxMsg, o \in 0..MaxMsg,
       run \in RunModes, allocate \in BOOLEAN :
        PrepComm([comms |-> IF mode = "params" THEN None ELSE n,
                  inMsgSize |-> i, outMsgSize |-> o,
                  inSplit |-> IF mode = "curCommSplits"
                              THEN ExplicitSplit(i, world_size) ELSE NoneSplit,
                  outSplit |-> IF mode = "curCommSplits"
                               THEN ExplicitSplit(o, world_size) ELSE NoneSplit],
                 [collective |-> n, dtype |-> run[1], dcheck |-> run[2]],
                 allocate)

----------------------------------------------------------------------------
(* dcheck *)

\* The scan for a wrong value that reports the last one instead of the first.
RECURSIVE lastWrongIndex(_, _, _)
lastWrongIndex(t, e, index) ==
    IF index >= Len(t) THEN <<>>
    ELSE IF lastWrongIndex(t, e, index + 1) # <<>>
         THEN lastWrongIndex(t, e, index + 1)
    ELSE IF t[index + 1] # e THEN <<index>>
    ELSE <<>>

\* for (index, val) in enumerate(t): the first index (from 0) whose value is
\* not expRes, as <<index>>; <<>> when every value is expRes.
RECURSIVE firstWrongIndex(_, _, _)
firstWrongIndex(t, expRes, index) ==
    IF index >= Len(t) THEN <<>>
    ELSE IF t[index + 1] # expRes THEN <<index>>
    ELSE firstWrongIndex(t, expRes, index + 1)

\* for (rank, t) in enumerate(tensor): the first <<rank, index>> whose value is
\* not expRes; <<>> when there is none.
RECURSIVE firstWrongInList(_, _, _)
firstWrongInList(data, expRes, rank) ==
    IF rank >= Len(data) THEN <<>>
    ELSE IF firstWrongIndex(data[rank + 1], expRes, 0) # <<>>
         THEN <<rank>> \o firstWrongIndex(data[rank + 1], expRes, 0)
    ELSE firstWrongInList(data, expRes, rank + 1)

\* The validation passed, or was skipped.
Passed(skipped) ==
    [raised |-> "none", skipped |-> skipped, pos |-> <<>>, actual |-> 0, expected |-> 0]

\* raise ValueError(... Wrong value at [rank][index] = actual, expected expRes ...)
ValueError(pos, actual, expRes) ==
    [raised |-> "ValueError", skipped |-> FALSE, pos |-> pos, actual |-> actual,
     expected |-> expRes]

\* tensor.dtype on a Python list.
AttributeError ==
    [raised |-> "AttributeError", skipped |-> FALSE, pos |-> <<>>, actual |-> 0,
     expected |-> 0]

\* The expected value without the case of a bool tensor.
expRes_noBool(ws, commsParams, rank, tensor) ==
    IF \/ commsParams.collective \in {"all_reduce", "reduce_scatter", "reduce_scatter_base"}
       \/ (rank = commsParams.srcOrDst /\ commsParams.collective = "reduce")
    THEN ws * initVal
    ELSE initVal

\* The expected value, lines 1141-1158.
expRes(ws, commsParams, rank, tensor) ==
    IF \/ commsParams.collective \in {"all_reduce", "reduce_scatter", "reduce_scatter_base"}
       \/ (rank = commsParams.srcOrDst /\ commsParams.collective = "reduce")
    THEN IF tensor.dtype = "bool" THEN initVal ELSE ws * initVal
    ELSE initVal

\* The exemption with the root test of incast, reduce and gather inverted.
skipsCheck_inverted(commsParams, rank) ==
    \/ /\ commsParams.collective \in {"incast", "reduce", "gather"}
       /\ rank = commsParams.srcOrDst
    \/ /\ commsParams.collective \in {"multicast", "pt2pt"}
       /\ rank \notin commsParams.dst_ranks

\* The ranks that return without checking, lines 1160-1169.
skipsCheck(commsParams, rank) ==
    \/ /\ commsParams.collective \in {"incast", "reduce", "gather"}
       /\ rank # commsParams.srcOrDst
    \/ /\ commsParams.collective \in {"multicast", "pt2pt"}
       /\ rank \notin commsParams.dst_ranks

\* paramCommsBench.dcheck(commsParams, curSize, tensor) on the rank
\* get_global_rank() = rank of a world of ws ranks.
dcheck(ws, commsParams, rank, tensor) ==
    LET e == expRes(ws, commsParams, rank, tensor)
        pos == IF tensor.isList THEN firstWrongInList(tensor.data, e, 0)
                                ELSE firstWrongIndex(tensor.data[1], e, 0)
    IN  IF /\ tensor.isList
           /\ \/ commsParams.collective \in {"all_reduce", "reduce_scatter", "reduce_scatter_base"}
              \/ (rank = commsParams.srcOrDst /\ commsParams.collective = "reduce")
        THEN AttributeError
        ELSE IF skipsCheck(commsParams, rank) THEN Passed(TRUE)
        ELSE IF pos = <<>> THEN Passed(FALSE)
        ELSE IF tensor.isList
             THEN ValueError(pos, tensor.data[pos[1] + 1][pos[2] + 1], e)
             ELSE ValueError(pos, tensor.data[1][pos[1] + 1], e)

----------------------------------------------------------------------------
(* Validation of one collective: every rank stages its buffers with
   validation on, the communication library runs the collective, a faulty
   transport may overwrite elements of the result, and dcheck examines it. *)

\* Largest world size of a validated run.
MaxCkWorld == 2
\* Largest element count per rank of a validated run.
MaxPerRank == 2
\* Most elements a faulty transport overwrites.
MaxFaults == 2

CheckCollectives ==
    {"all_to_all", "all_to_allv", "all_reduce", "broadcast", "gather",
     "all_gather", "all_gather_base", "reduce", "reduce_scatter",
     "reduce_scatter_base", "scatter", "incast", "multicast", "pt2pt"}

CheckConfigs ==
    {[collective |-> c, dtype |-> dt, ws |-> ws, rank |-> rk, srcOrDst |-> root,
      dst_ranks |-> (0..(ws - 1)) \ {root}, numel |-> per * ws] :
        c \in CheckCollectives, dt \in Dtypes, ws \in 1..MaxCkWorld,
        rk \in 0..(MaxCkWorld - 1), root \in 0..(MaxCkWorld - 1),
        per \in 1..MaxPerRank}

\* The ranks of a world other than root, in order: the senders of an incast.
RECURSIVE OtherRanks(_, _)
OtherRanks(ws, root) ==
    IF ws = 0 THEN <<>>
    ELSE IF ws - 1 = root THEN OtherRanks(ws - 1, root)
    ELSE Append(OtherRanks(ws - 1, root), ws - 1)

NoStaged == [ipTensor |-> EmptyList, opTensor |-> EmptyList]
NoOut == [isList |-> TRUE, dtype |-> "float32", data |-> <<>>]
NotChecked ==
    [raised |-> "notrun", skipped |-> FALSE, pos |-> <<>>, actual |-> 0, expected |-> 0]

CheckIdle ==
    /\ ckCfg = [collective |-> "noop", dtype |-> "float32", ws |-> 1, rank |-> 0,
                srcOrDst |-> 0, dst_ranks |-> {}, numel |-> 0]
    /\ ckPc = "idle"
    /\ ckStaged = NoStaged
    /\ ckOut = NoOut
    /\ ckFaults = {}
    /\ ckRes = NotChecked

CheckInit ==
    /\ ckCfg \in {c \in CheckConfigs : c.rank < c.ws /\ c.srcOrDst < c.ws}
    /\ ckPc = "start"
    /\ ckStaged = NoStaged
    /\ ckOut = NoOut
    /\ ckFaults = {}
    /\ ckRes = NotChecked

\* The rank stages the collective with validation on (commsParams.dcheck = 1).
CkStage ==
    /\ ckPc = "start"
    /\ LET self == [log |-> <<>>, world_size |-> ckCfg.ws,
                    src_ranks |-> OtherRanks(ckCfg.ws, ckCfg.srcOrDst),
                    collectiveFunc |-> ExtendedComms,
                    ipTensor_split |-> <<>>, opTensor_split |-> <<>>]
           curComm == [comms |-> None, inMsgSize |-> ckCfg.numel,
                       outMsgSize |-> ckCfg.numel,
                       inSplit |-> NoneSplit, outSplit |-> NoneSplit]
           commsParams == [collective |-> Chars(ckCfg.collective),
                           dtype |-> ckCfg.dtype, dcheck |-> 1]
       IN  \E r \in {prepComm(self, curComm, commsParams, TRUE)} :
               ckStaged' = [ipTensor |-> r.ipTensor, opTensor |-> r.opTensor]
    /\ ckPc' = "staged"
    /\ UNCHANGED <<ckCfg, ckOut, ckFaults, ckRes>>

\* The sum reduction of the library over the ranks of the world, every rank
\* contributing the element v it staged; a sum of bools is their disjunction.
RECURSIVE SumOverRanks(_, _)
SumOverRanks(v, ranks) == IF ranks = 0 THEN 0 ELSE v + SumOverRanks(v, ranks - 1)

Reduced(v, ranks, dtype) ==
    IF dtype = "bool"
    THEN (IF SumOverRanks(v, ranks) > 0 THEN 1 ELSE 0)
    ELSE SumOverRanks(v, ranks)

\* Whether the collective reduces into this rank's output.
ReducesHere(cfg) ==
    \/ cfg.collective \in {"all_reduce", "reduce_scatter", "reduce_scatter_base"}
    \/ cfg.collective = "reduce" /\ cfg.rank = cfg.srcOrDst

\* Whether this rank's separate output buffers receive nothing and keep what
\* alloc_random put there.
KeepsRandom(cfg) ==
    \/ cfg.collective \in {"gather", "incast"} /\ cfg.rank # cfg.srcOrDst
    \/ cfg.collective = "pt2pt" /\ cfg.rank \notin cfg.dst_ranks

\* The element every rank staged as input: alloc_ones scaled by initVal.
StagedValue(staged) == onesValue(staged.ipTensor.items[1])

\* The library completes the collective: the output buffers, in the shape they
\* were staged in, hold the reduced value, the value a peer staged, or (fill)
\* what alloc_random left where nothing is received.
CkCollective(fill) ==
    /\ ckPc = "staged"
    /\ LET op == ckStaged.opTensor
           dt == IF op.items = <<>> THEN ckCfg.dtype ELSE op.items[1].dtype
           v == IF ReducesHere(ckCfg)
                THEN Reduced(StagedValue(ckStaged), ckCfg.ws, dt)
                ELSE IF KeepsRandom(ckCfg) THEN fill
                ELSE StagedValue(ckStaged)
       IN  ckOut' = [isList |-> op.isList, dtype |-> dt,
                     data |-> [b \in 1..Len(op.items) |->
                                  [i \in 1..op.items[b].numel |-> v]]]
    /\ ckPc' = "done"
    /\ UNCHANGED <<ckCfg, ckStaged, ckFaults, ckRes>>

\* A faulty transport overwrites element i of buffer b with v.
CkCorrupt(b, i, v) ==
    /\ ckPc = "done"
    /\ Cardinality(ckFaults) < MaxFaults
    /\ b \in 1..Len(ckOut.data)
    /\ i \in 1..Len(ckOut.data[b])
    /\ <<b, i>> \notin ckFaults
    /\ ckOut.data[b][i] # v
    /\ ckOut' = [ckOut EXCEPT !.data[b][i] = v]
    /\ ckFaults' = ckFaults \cup {<<b, i>>}
    /\ UNCHANGED <<ckCfg, ckPc, ckStaged, ckRes>>

\* commsParams as dcheck reads it.
CheckParams(cfg) ==
    [collective |-> cfg.collective, srcOrDst |-> cfg.srcOrDst,
     dst_ranks |-> cfg.dst_ranks]

\* The benchmark validates the result.
CkDcheck ==
    /\ ckPc = "done"
    /\ ckRes' = dcheck(ckCfg.ws, CheckParams(ckCfg), ckCfg.rank, ckOut)
    /\ ckPc' = "checked"
    /\ UNCHANGED <<ckCfg, ckStaged, ckOut, ckFaults>>

----------------------------------------------------------------------------
(* getAlgBW.  Python floats are modelled as exact fractions [num, den] in
   lowest terms with den > 0; rounding is not modelled. *)

\* Largest elapsedTimeNS, dataSize and numIters of a measurement.
MaxElapsed == 5
MaxData == 4
MaxIters == 3

Abs(x) == IF x < 0 THEN 0 - x ELSE x

RECURSIVE Gcd(_, _)
Gcd(a, b) == IF b = 0 THEN a ELSE Gcd(b, a % b)

\* The fraction n/d (d # 0) in lowest terms.
Frac(n, d) ==
    LET g == Gcd(Abs(n), Abs(d))
    IN  IF d < 0 THEN [num |-> (0 - n) \div g, den |-> (0 - d) \div g]
                 ELSE [num |-> n \div g, den |-> d \div g]

\* A number given as an int.
Num(n) == [num |-> n, den |-> 1]

\* a / b: raises ZeroDivisionError when b is 0.
truediv(a, b) ==
    IF b.num = 0
    THEN [raised |-> TRUE, val |-> Num(0)]
    ELSE [raised |-> FALSE, val |-> Frac(a.num * b.den, a.den * b.num)]

\* getAlgBW without the test that the average time is not 0.
getAlgBW_unguarded(elapsedTimeNS, dataSize, numIters) ==
    LET avgIterNS == IF numIters # 0
                     THEN truediv(Num(elapsedTimeNS), Num(numIters))
                     ELSE [raised |-> FALSE, val |-> Num(0)]
        algBW == truediv(Num(dataSize), avgIterNS.val)
    IN  [avgIterNS |-> avgIterNS.val, algBW |-> algBW.val,
         raised |-> avgIterNS.raised \/ algBW.raised]

getAlgBW(elapsedTimeNS, dataSize, numIters) ==
    LET avgIterNS == IF numIters # 0
                     THEN truediv(Num(elapsedTimeNS), Num(numIters))
                     ELSE [raised |-> FALSE, val |-> Num(0)]
        algBW == IF avgIterNS.val # Num(0)
                 THEN truediv(Num(dataSize), avgIterNS.val)
                 ELSE [raised |-> FALSE, val |-> Num(0)]
    IN  [avgIterNS |-> avgIterNS.val, algBW |-> algBW.val,
         raised |-> avgIterNS.raised \/ algBW.raised]

NoBwCall == [called |-> FALSE, elapsedTimeNS |-> 0, dataSize |-> 0, numIters |-> 0]
NoBwRet == [avgIterNS |-> Num(0), algBW |-> Num(0), raised |-> FALSE]

BwInit ==
    /\ bwCall = NoBwCall
    /\ bwRet = NoBwRet

\* One call of getAlgBW; the next call replaces the result.
GetAlgBW(elapsedTimeNS, dataSize, numIters) ==
    /\ bwCall' = [called |-> TRUE, elapsedTimeNS |-> elapsedTimeNS,
                  dataSize |-> dataSize, numIters |-> numIters]
    /\ bwRet' = getAlgBW(elapsedTimeNS, dataSize, numIters)

----------------------------------------------------------------------------
(* backendFunctions.getBusBW, on the same exact fractions as getAlgBW. *)

\* Largest world size of a bandwidth report.
MaxBusWorld == 4
\* Largest numerator and denominator of an algorithmic bandwidth.
MaxAlgBW == 3

\* a * b
mul(a, b) == Frac(a.num * b.num, a.den * b.den)

\* getBusBW without the tests that the world size is not 0.
getBusBW_unguarded(collective, algBW, world_size_) ==
    LET f == IF collective = "all_reduce"
             THEN truediv(Num(2 * (world_size_ - 1)), Num(world_size_))
             ELSE truediv(Num(world_size_ - 1), Num(world_size_))
    IN  IF collective \in {"all_reduce", "all_to_all", "all_to_allv", "gather", "all_gather", "reduce_scatter", "reduce_scatter_base", "scatter", "all_gather_base"}
        THEN [busBW |-> mul(algBW, f.val), raised |-> f.raised, logged |-> FALSE]
        ELSE [busBW |-> algBW, raised |-> FALSE,
              logged |-> collective \notin {"reduce", "broadcast", "incast", "multicast"}]

\* getBusBW(collective, algBW, collectiveArgs) with
\* world_size_ = collectiveArgs.world_size: the bus bandwidth, whether a
\* division raised, and whether the unsupported-collective error was logged.
getBusBW(collective, algBW, world_size_) ==
    LET one == [raised |-> FALSE, val |-> Num(1)]
    IN  IF collective = "all_reduce"
        THEN LET mulFactor == IF world_size_ # 0
                              THEN truediv(Num(2 * (world_size_ - 1)), Num(world_size_))
                              ELSE one
             IN  [busBW |-> mul(algBW, mulFactor.val), raised |-> mulFactor.raised,
                  logged |-> FALSE]
        ELSE IF collective \in {"all_to_all", "all_to_allv", "gather", "all_gather", "reduce_scatter", "reduce_scatter_base", "scatter", "all_gather_base"}
        THEN LET mulFactor == IF world_size_ # 0
                              THEN truediv(Num(world_size_ - 1), Num(world_size_))
                              ELSE one
             IN  [busBW |-> mul(algBW, mulFactor.val), raised |-> mulFactor.raised,
                  logged |-> FALSE]
        ELSE IF collective \in {"reduce", "broadcast", "incast", "multicast"}
        THEN [busBW |-> algBW, raised |-> FALSE, logged |-> FALSE]
        ELSE [busBW |-> algBW, raised |-> FALSE, logged |-> TRUE]

NoBusCall == [called |-> FALSE, collective |-> "", algBW |-> Num(0), world_size |-> 0]
NoBusRet == [busBW |-> Num(0), raised |-> FALSE, logged |-> FALSE]

BusInit ==
    /\ busCall = NoBusCall
    /\ busRet = NoBusRet

\* One call of getBusBW; the next call replaces the result.
GetBusBW(collective, algBW, world_size_) ==
    /\ busCall' = [called |-> TRUE, collective |-> collective, algBW |-> algBW,
                   world_size |-> world_size_]
    /\ busRet' = getBusBW(collective, algBW, world_size_)

----------------------------------------------------------------------------
(* getSizes *)

\* Largest beginSize and endSize of a sweep.
MaxSize == 6
\* Largest stepFactor and stepBytes of a sweep.
MaxStepFactor == 3
MaxStepBytes == 2

\* maxIters of getSizes: the loop stops once numIters exceeds it.
maxIters == 100

\* The while loop of getSizes with a strict comparison against endSize.
RECURSIVE sizesLoop_exclusive(_, _, _, _, _, _)
sizesLoop_exclusive(curSize, endSize, stepFactor, stepBytes, numIters, allSizes) ==
    IF Len(allSizes) > maxIters \/ ~(curSize < endSize) THEN allSizes
    ELSE IF numIters + 1 > maxIters THEN Append(allSizes, curSize)
    ELSE sizesLoop_exclusive(IF stepBytes = 0 THEN curSize * stepFactor ELSE curSize + stepBytes, endSize, stepFactor, stepBytes, numIters + 1, Append(allSizes, curSize))

\* The while loop of getSizes from the state (curSize, numIters, allSizes):
\* the list it leaves in allSizes.  (len(allSizes) equals numIters and so never
\* exceeds maxIters at the loop test; the disjunct only makes the list
\* evaluated at every iteration.)
RECURSIVE sizesLoop(_, _, _, _, _, _)
sizesLoop(curSize, endSize, stepFactor, stepBytes, numIters, allSizes) ==
    IF Len(allSizes) > maxIters \/ ~(curSize <= endSize) THEN allSizes
    ELSE IF numIters + 1 > maxIters THEN Append(allSizes, curSize)
    ELSE sizesLoop(IF stepBytes = 0 THEN curSize * stepFactor ELSE curSize + stepBytes, endSize, stepFactor, stepBytes, numIters + 1, Append(allSizes, curSize))

\* getSizes(beginSize, endSize, stepFactor, stepBytes)
getSizes(beginSize, endSize, stepFactor, stepBytes) ==
    sizesLoop(beginSize, endSize, stepFactor, stepBytes, 0, <<>>)

NoSizesCall ==
    [called |-> FALSE, beginSize |-> 0, endSize |-> 0, stepFactor |-> 0, stepBytes |-> 0]

SizesInit ==
    /\ szCall = NoSizesCall
    /\ szRet = <<>>

\* One call of getSizes.
GetSizes(beginSize, endSize, stepFactor, stepBytes) ==
    /\ szCall' = [called |-> TRUE, beginSize |-> beginSize, endSize |-> endSize,
                  stepFactor |-> stepFactor, stepBytes |-> stepBytes]
    /\ szRet' = getSizes(beginSize, endSize, stepFactor, stepBytes)

----------------------------------------------------------------------------
(* fixBeginSize.  commsParams is [collective, beginSize, element_size,
   bitwidth, quant_a2a_embedding_dim]; the quotients are exact fractions. *)

\* Largest beginSize and world size of a run whose begin size is fixed.
MaxBegin == 70
MaxFixWorld == 2

\* a < b on fractions
lt(a, b) == a.num * b.den < b.num * a.den

\* fixBeginSize without the adjustment for quantization.
fixBeginSize_noQuant(commsParams, world_size_) ==
    IF commsParams.collective \in {"all_to_all", "all_to_allv", "all_gather", "all_gather_base", "gather", "reduce_scatter_base"}
    THEN LET q1 == truediv(Num(commsParams.beginSize), Num(commsParams.element_size))
         IN  [commsParams |->
                  IF ~q1.raised /\ lt(q1.val, Num(world_size_))
                  THEN [commsParams EXCEPT !.beginSize = world_size_ * commsParams.element_size]
                  ELSE commsParams,
              raised |-> q1.raised]
    ELSE IF commsParams.collective \in {"all_reduce", "reduce"}
    THEN [commsParams |->
              IF commsParams.beginSize < commsParams.element_size
              THEN [commsParams EXCEPT !.beginSize = commsParams.element_size]
              ELSE commsParams,
          raised |-> FALSE]
    ELSE [commsParams |-> commsParams, raised |-> FALSE]

\* fixBeginSize(commsParams, world_size): commsParams as it leaves it, and
\* whether a division raised ZeroDivisionError.
fixBeginSize(commsParams, world_size_) ==
    IF commsParams.collective \in {"all_to_all", "all_to_allv", "all_gather", "all_gather_base", "gather", "reduce_scatter_base"}
    THEN LET q1 == truediv(Num(commsParams.beginSize), Num(commsParams.element_size))
             p1 == IF ~q1.raised /\ lt(q1.val, Num(world_size_))
                   THEN [commsParams EXCEPT !.beginSize = world_size_ * commsParams.element_size]
                   ELSE commsParams
             q2 == truediv(Num(p1.beginSize), Num(p1.element_size))
             q3 == truediv(q2.val, Num(world_size_))
             quant == p1.bitwidth < 32
             p2 == IF /\ quant /\ ~q2.raised /\ ~q3.raised
                      /\ lt(q3.val, Num(p1.quant_a2a_embedding_dim))
                   THEN [p1 EXCEPT !.beginSize = p1.quant_a2a_embedding_dim * world_size_ * p1.element_size]
                   ELSE p1
         IN  [commsParams |-> p2,
              raised |-> q1.raised \/ (quant /\ (q2.raised \/ q3.raised))]
    ELSE IF commsParams.collective \in {"all_reduce", "reduce"}
    THEN [commsParams |->
              IF commsParams.beginSize < commsParams.element_size
              THEN [commsParams EXCEPT !.beginSize = commsParams.element_size]
              ELSE commsParams,
          raised |-> FALSE]
    ELSE [commsParams |-> commsParams, raised |-> FALSE]

NoFixParams ==
    [collective |-> "", beginSize |-> 0, element_size |-> 1, bitwidth |-> 32,
     quant_a2a_embedding_dim |-> 32]

FixInit ==
    /\ fbCall = [called |-> FALSE, commsParams |-> NoFixParams, world_size |-> 1]
    /\ fbRet = [commsParams |-> NoFixParams, raised |-> FALSE]

\* One call of fixBeginSize.
FixBeginSize(commsParams, world_size_) ==
    /\ fbCall' = [called |-> TRUE, commsParams |-> commsParams,
                  world_size |-> world_size_]
    /\ fbRet' = fixBeginSize(commsParams, world_size_)

----------------------------------------------------------------------------
(* parseRankList.  ipStr is a sequence of characters; the outcome is
   "return", "SystemExit" (gracefulExit) or "ValueError" (raised by int() on
   a field that is not an integer literal, and caught nowhere). *)

\* Longest ipStr and largest world size of a parsed rank list.
MaxStrLen == 5
MaxRankWorld == 3

Digits == <<"0", "1", "2", "3", "4", "5", "6", "7", "8", "9">>

\* The characters rank lists are written with here.
RankChars == {"0", "1", "2", ",", ":", "-", " "}

\* The value of a decimal digit.
digitVal(c) == (CHOOSE i \in 1..10 : Digits[i] = c) - 1

isDigit(c) == \E i \in 1..10 : Digits[i] = c

\* str.isnumeric()
isnumeric(str) == str # <<>> /\ \A i \in 1..Len(str) : isDigit(str[i])

\* str.find(c) != -1
found(str, c) == \E i \in 1..Len(str) : str[i] = c

\* str.strip()
RECURSIVE strip(_)
strip(str) ==
    IF str = <<>> THEN str
    ELSE IF Head(str) = " " THEN strip(Tail(str))
    ELSE IF str[Len(str)] = " " THEN strip(SubSeq(str, 1, Len(str) - 1))
    ELSE str

\* str.split(sep): the fields between the separators, at least one.
RECURSIVE split(_, _)
split(str, sep) ==
    IF ~found(str, sep) THEN <<str>>
    ELSE LET i == CHOOSE k \in 1..Len(str) :
                      str[k] = sep /\ \A j \in 1..(k - 1) : str[j] # sep
         IN  <<SubSeq(str, 1, i - 1)>> \o split(SubSeq(str, i + 1, Len(str)), sep)

\* The number a sequence of digits writes.
RECURSIVE decimal(_)
decimal(ds) ==
    IF ds = <<>> THEN 0
    ELSE 10 * decimal(SubSeq(ds, 1, Len(ds) - 1)) + digitVal(ds[Len(ds)])

\* int(str): an optional sign and digits, or ValueError.
int(str) ==
    LET t == strip(str)
        signed == t # <<>> /\ Head(t) \in {"-", "+"}
        ds == IF signed THEN Tail(t) ELSE t
    IN  IF isnumeric(ds)
        THEN [raised |-> FALSE,
              val |-> IF signed /\ Head(t) = "-" THEN 0 - decimal(ds) ELSE decimal(ds)]
        ELSE [raised |-> TRUE, val |-> 0]

\* list(map(int, [r.strip() for r in fields]))
mapInt(fields) ==
    [raised |-> \E i \in 1..Len(fields) : int(strip(fields[i])).raised,
     vals |-> [i \in 1..Len(fields) |-> int(strip(fields[i])).val]]

\* list(OrderedDict.fromkeys(xs)): the first occurrence of every value.
RECURSIVE fromkeys(_)
fromkeys(xs) ==
    IF xs = <<>> THEN <<>>
    ELSE LET init == SubSeq(xs, 1, Len(xs) - 1)
             last == xs[Len(xs)]
         IN  IF \E i \in 1..Len(init) : init[i] = last
             THEN fromkeys(init)
             ELSE Append(fromkeys(init), last)

\* [*range(a, b)]
range(a, b) == [i \in 1..(b - a) |-> a + i - 1]

\* The list parseRankList builds before it checks it, lines 111-124.
rankListOf(ipStr) ==
    IF isnumeric(ipStr)
    THEN [raised |-> FALSE, vals |-> <<decimal(ipStr)>>]
    ELSE IF found(ipStr, ",")
    THEN LET r == mapInt(split(ipStr, ","))
         IN  [raised |-> r.raised, vals |-> fromkeys(r.vals)]
    ELSE IF found(ipStr, ":")
    THEN LET pos == mapInt(split(ipStr, ":"))
         IN  [raised |-> pos.raised, vals |-> range(pos.vals[1], pos.vals[2] + 1)]
    ELSE [raised |-> FALSE, vals |-> <<>>]

\* parseRankList that returns the list unchecked.
parseRankList_unchecked(ipStr, world_size_) ==
    IF ipStr = <<>> THEN [outcome |-> "return", rankList |-> <<>>]
    ELSE IF rankListOf(ipStr).raised THEN [outcome |-> "ValueError", rankList |-> <<>>]
    ELSE [outcome |-> "return", rankList |-> rankListOf(ipStr).vals]

\* parseRankList(ipStr, ipName, comms_world_info) with
\* world_size_ = comms_world_info.world_size.
parseRankList(ipStr, world_size_) ==
    IF ipStr = <<>> THEN [outcome |-> "return", rankList |-> <<>>]
    ELSE LET r == rankListOf(ipStr)
         IN  IF r.raised THEN [outcome |-> "ValueError", rankList |-> <<>>]
             ELSE IF \/ Len(r.vals) = 0
                     \/ \E i \in 1..Len(r.vals) :
                           r.vals[i] < 0 \/ r.vals[i] >= world_size_
             THEN [outcome |-> "SystemExit", rankList |-> <<>>]
             ELSE [outcome |-> "return", rankList |-> r.vals]

RankInit ==
    /\ rlCall = [called |-> FALSE, ipStr |-> <<>>, world_size |-> 1]
    /\ rlRet = [outcome |-> "notrun", rankList |-> <<>>]

\* One call of parseRankList.
ParseRankList(ipStr, world_size_) ==
    /\ rlCall' = [called |-> TRUE, ipStr |-> ipStr, world_size |-> world_size_]
    /\ rlRet' = parseRankList(ipStr, world_size_)

----------------------------------------------------------------------------
(* paramStreamGuard.  A program opens guarded blocks, nested up to
   MaxDepth; a block ends normally or by an exception, which unwinds through
   the __exit__ of every open guard. *)

\* Number of device streams.
NumStreams == 3
\* Deepest nesting of guarded blocks.
MaxDepth == 2

Streams == 1..NumStreams

\* backendFuncs.switch_stream(stream, device) with cur the current stream:
\* makes stream current and returns the stream that was current.
switch_stream(cur, stream) == [current |-> stream, ret |-> cur]

\* paramStreamGuard.__init__
newGuard(stream) == [stream |-> stream, cur_stream |-> 0]

\* paramStreamGuard.__enter__ with cur the backend's current stream:
\* returns the guard and the backend's new current stream.
guardEnter(guard, cur) ==
    LET sw == switch_stream(cur, guard.stream)
    IN  [guard |-> [guard EXCEPT !.cur_stream = sw.ret], current |-> sw.current]

\* __exit__ that leaves the guarded stream current.
guardExit_noRestore(guard, cur) == [current |-> cur, suppress |-> FALSE]

\* paramStreamGuard.__exit__(*exc): switches back and returns None, so an
\* exception is not suppressed.
guardExit(guard, cur) ==
    [current |-> switch_stream(cur, guard.cur_stream).current, suppress |-> FALSE]

NoGuardStep == [op |-> "none", guard |-> newGuard(0), before |-> 0, excBefore |-> FALSE]

GuardIdle ==
    /\ sgCur = 1
    /\ sgStack = <<>>
    /\ sgExc = FALSE
    /\ sgLast = NoGuardStep

GuardInit ==
    /\ sgCur \in Streams
    /\ sgStack = <<>>
    /\ sgExc = FALSE
    /\ sgLast = NoGuardStep

\* with paramStreamGuard(stream, curDevice, backendFuncs): ...
\* An open guard is kept with `before`, the stream that was current at entry.
SgEnter(stream) ==
    /\ ~sgExc
    /\ Len(sgStack) < MaxDepth
    /\ LET e == guardEnter(newGuard(stream), sgCur)
       IN  /\ sgCur' = e.current
           /\ sgStack' = Append(sgStack, [guard |-> e.guard, before |-> sgCur])
           /\ sgLast' = [op |-> "enter", guard |-> e.guard, before |-> sgCur,
                         excBefore |-> FALSE]
    /\ UNCHANGED sgExc

\* The body of the innermost open block raises.
SgRaise ==
    /\ ~sgExc
    /\ sgStack # <<>>
    /\ sgExc' = TRUE
    /\ sgLast' = [sgLast EXCEPT !.op = "raise"]
    /\ UNCHANGED <<sgCur, sgStack>>

\* The innermost block ends, normally or by the propagating exception:
\* the with statement calls __exit__ and re-raises unless it returns true.
SgExit ==
    /\ sgStack # <<>>
    /\ LET top == sgStack[Len(sgStack)]
           x == guardExit(top.guard, sgCur)
       IN  /\ sgCur' = x.current
           /\ sgExc' = (sgExc /\ ~x.suppress)
           /\ sgLast' = [op |-> "exit", guard |-> top.guard, before |-> top.before,
                         excBefore |-> sgExc]
    /\ sgStack' = SubSeq(sgStack, 1, Len(sgStack) - 1)

\* The caller of the outermost block handles the exception.
SgHandle ==
    /\ sgStack = <<>>
    /\ sgExc
    /\ sgExc' = FALSE
    /\ sgLast' = [sgLast EXCEPT !.op = "handled"]
    /\ UNCHANGED <<sgCur, sgStack>>

----------------------------------------------------------------------------
(* paramTimer and paramProfile.  A program resets and increments one timer
   and opens paramProfile blocks, nested up to MaxDepth, that are bound to
   the timer or to no timer; the clock advances between the steps.  Readings
   of time.monotonic() are kept in nanoseconds, so that the interval
   (end - start) * 1e9 is the difference of two readings. *)

\* Largest argument of reset and incrTimeNS, latest clock reading, and most
\* increments between two resets.
MaxTimeNS == 2
MaxClock == 2
MaxIncrs == 2

\* paramTimer(): elapsedTimeNS defaults to 0.0.
paramTimer == [elapsedTimeNS |-> 0]

\* reset that adds the new time to the elapsed one.
reset_adding(timer, newTime) == [timer EXCEPT !.elapsedTimeNS = @ + newTime]

\* paramTimer.reset(newTime)
reset(timer, newTime) == [timer EXCEPT !.elapsedTimeNS = newTime]

\* paramTimer.incrTimeNS(timeNS)
incrTimeNS(timer, timeNS) == [timer EXCEPT !.elapsedTimeNS = @ + timeNS]

\* paramTimer.getTimeUS()
getTimeUS(timer) == truediv(Num(timer.elapsedTimeNS), Num(1000)).val

\* paramTimer.getTimeNS()
getTimeNS(timer) == timer.elapsedTimeNS

\* paramProfile.__init__ and __enter__ at clock reading now; timed says
\* whether the block was given the timer.
profileEnter(timed, now) == [timer |-> timed, start |-> now]

\* __exit__ that leaves the timer alone when the block raised.
profileExit_dropsOnRaise(prof, timer, now, exc) ==
    IF prof.timer /\ ~exc THEN incrTimeNS(timer, now - prof.start) ELSE timer

\* paramProfile.__exit__(exc_type, exc_value, traceback) at clock reading now:
\* the timer afterwards.
profileExit(prof, timer, now, exc) ==
    IF prof.timer THEN incrTimeNS(timer, now - prof.start) ELSE timer

NoProfile == [ended |-> FALSE, exc |-> FALSE, timed |-> FALSE]

TimerInit ==
    /\ tmTimer = paramTimer
    /\ tmHist = [base |-> 0, sum |-> 0, incrs |-> 0, blocks |-> 0]
    /\ tmClock = 0
    /\ tmProf = <<>>
    /\ tmLast = NoProfile

\* timer.reset(newTime)
TimerReset(newTime) ==
    /\ tmTimer' = reset(tmTimer, newTime)
    /\ tmHist' = [base |-> newTime, sum |-> 0, incrs |-> 0, blocks |-> 0]
    /\ UNCHANGED <<tmClock, tmProf, tmLast>>

\* timer.reset()
TimerResetDefault ==
    /\ tmTimer' = reset(tmTimer, 0)
    /\ tmHist' = [base |-> 0, sum |-> 0, incrs |-> 0, blocks |-> 0]
    /\ UNCHANGED <<tmClock, tmProf, tmLast>>

\* timer.incrTimeNS(timeNS)
TimerIncr(timeNS) ==
    /\ tmHist.incrs < MaxIncrs
    /\ tmTimer' = incrTimeNS(tmTimer, timeNS)
    /\ tmHist' = [tmHist EXCEPT !.sum = @ + timeNS, !.incrs = @ + 1]
    /\ UNCHANGED <<tmClock, tmProf, tmLast>>

\* Time passes.
ClockTick ==
    /\ tmClock < MaxClock
    /\ tmClock' = tmClock + 1
    /\ UNCHANGED <<tmTimer, tmHist, tmProf, tmLast>>

\* with paramProfile(timer=..., description=...):
ProfileEnter(timed) ==
    /\ Len(tmProf) < MaxDepth
    /\ tmProf' = Append(tmProf, profileEnter(timed, tmClock))
    /\ UNCHANGED <<tmTimer, tmHist, tmClock, tmLast>>

\* The innermost block ends, normally or by an exception.
ProfileExit(exc) ==
    /\ tmProf # <<>>
    /\ tmHist.incrs < MaxIncrs
    /\ LET prof == tmProf[Len(tmProf)]
       IN  /\ tmTimer' = profileExit(prof, tmTimer, tmClock, exc)
           /\ tmHist' = IF prof.timer
                        THEN [tmHist EXCEPT !.sum = @ + (tmClock - prof.start),
                                            !.incrs = @ + 1, !.blocks = @ + 1]
                        ELSE tmHist
           /\ tmLast' = [ended |-> TRUE, exc |-> exc, timed |-> prof.timer]
    /\ tmProf' = SubSeq(tmProf, 1, Len(tmProf) - 1)
    /\ UNCHANGED tmClock

----------------------------------------------------------------------------
(* setTensorVal.  A tensor is [list |-> FALSE, dtype, data]; a list of
   tensors is [list |-> TRUE, items].  Element values are fractions, and the
   bool values True and False are 1 and 0. *)

\* Most elements of a tensor, most tensors of a list, and the ranks.
MaxNumel == 2
MaxListLen == 2
MaxValWorld == 2

\* random.random(): a value in [0.0, 1.0).
RandVals == {Num(0), Frac(1, 2), Frac(3, 4)}

\* What a tensor of the dtype keeps of the value assigned to an element.
store(dtype, v) ==
    IF dtype = "bool" THEN (IF v.num # 0 THEN Num(1) ELSE Num(0)) ELSE v

\* tensor[:] = v on a tensor.
setAll(t, v) == [t EXCEPT !.data = [i \in DOMAIN @ |-> store(t.dtype, v)]]

\* t.type == torch.bool: t.type is the method Tensor.type, which is equal to
\* no dtype.
typeIsBool(t) == FALSE

\* setTensorVal that gives the root of a broadcast the random value too.
setTensorVal_rootRandom(self, tensor, useRandVal, rand) ==
    LET newVal == IF useRandVal THEN rand ELSE Num(self.initVal)
    IN  IF tensor.list /\ tensor.items = <<>>
        THEN [tensor |-> tensor, raised |-> "IndexError"]
        ELSE IF self.collective \in {"all_reduce", "reduce"}
        THEN IF tensor.list
             THEN [tensor |-> tensor, raised |-> "TypeError"]
             ELSE [tensor |-> setAll(tensor, Num(self.initVal)), raised |-> "none"]
        ELSE IF tensor.list
        THEN IF self.collective \in {"broadcast", "multicast"}
             THEN [tensor |-> tensor, raised |-> "TypeError"]
             ELSE [tensor |-> [tensor EXCEPT !.items =
                                  [i \in DOMAIN @ |-> setAll(@[i], newVal)]],
                   raised |-> "none"]
        ELSE [tensor |-> setAll(tensor, newVal), raised |-> "none"]

\* paramCommsBench.setTensorVal(tensor, useRandVal) with rand the value of
\* random.random(): the tensor afterwards and the exception raised.
setTensorVal(self, tensor, useRandVal, rand) ==
    LET rnd == IF useRandVal THEN rand ELSE Num(self.initVal)
        t == IF tensor.list THEN tensor.items[1] ELSE tensor
        newVal == IF typeIsBool(t)
                  THEN (IF lt(Frac(1, 2), rnd) THEN Num(1) ELSE Num(0))
                  ELSE rnd
    IN  IF tensor.list /\ tensor.items = <<>>
        THEN [tensor |-> tensor, raised |-> "IndexError"]
        ELSE IF self.collective \in {"all_reduce", "reduce"}
        THEN IF tensor.list
             THEN [tensor |-> tensor, raised |-> "TypeError"]
             ELSE [tensor |-> setAll(tensor, Num(self.initVal)), raised |-> "none"]
        ELSE IF self.collective \in {"broadcast", "multicast"}
        THEN IF tensor.list
             THEN [tensor |-> tensor, raised |-> "TypeError"]
             ELSE [tensor |-> setAll(tensor, IF self.global_rank = self.srcOrDst
                                           THEN Num(self.initVal) ELSE newVal),
                   raised |-> "none"]
        ELSE IF tensor.list
        THEN [tensor |-> [tensor EXCEPT !.items =
                             [i \in DOMAIN @ |-> setAll(@[i], newVal)]],
              raised |-> "none"]
        ELSE [tensor |-> setAll(tensor, newVal), raised |-> "none"]

\* A tensor of numel elements as a collective left it.
StaleTensor(dtype, numel) ==
    [list |-> FALSE, dtype |-> dtype, data |-> [i \in 1..numel |-> Num(0)]]

\* The operations that prepComm stages a list of tensors for.
ListStaged == {"all_to_all", "all_gather", "gather", "incast", "reduce_scatter", "scatter"}

\* The buffers prepComm stages for a collective: one tensor, or for the
\* operations with a list a list of tensors of one size.
StagedShapes(collective) ==
    {StaleTensor(dt, n) : dt \in Dtypes, n \in 0..MaxNumel}
    \cup (IF collective \in ListStaged
          THEN {[list |-> TRUE, items |-> [i \in 1..k |-> StaleTensor(dt, n)]] :
                   dt \in Dtypes, n \in 1..MaxNumel, k \in 0..MaxListLen}
          ELSE {})

NoValCall ==
    [called |-> FALSE,
     self |-> [initVal |-> initVal, collective |-> "noop", srcOrDst |-> 0, global_rank |-> 0],
     tensor |-> StaleTensor("float32", 0), useRandVal |-> FALSE, rand |-> Num(0)]

ValInit ==
    /\ stCall = NoValCall
    /\ stRet = [tensor |-> StaleTensor("float32", 0), raised |-> "none"]

\* One call of setTensorVal.
SetTensorVal(self, tensor, useRandVal, rand) ==
    /\ stCall' = [called |-> TRUE, self |-> self, tensor |-> tensor,
                  useRandVal |-> useRandVal, rand |-> rand]
    /\ stRet' = setTensorVal(self, tensor, useRandVal, rand)

----------------------------------------------------------------------------
(* checkQuantArgs *)

\* raise NotImplementedError(msg)
NotImplementedError(msg, warned) ==
    [raised |-> "NotImplementedError", warned |-> warned, msg |-> msg]

\* checkQuantArgs without the test of the dtype.
checkQuantArgs_anyDtype(collective, dtype, beginSize, quant_a2a_embedding_dim, blockingFlag) ==
    LET warned == /\ collective \in {"all_to_all", "all_to_allv"}
                  /\ (beginSize \div 4) % quant_a2a_embedding_dim # 0
    IN  IF collective \notin {"all_to_all", "all_to_allv", "reduce", "all_reduce"}
        THEN NotImplementedError("collective", FALSE)
        ELSE IF collective \in {"all_to_all", "all_to_allv"} /\ blockingFlag # 1
        THEN NotImplementedError("synchronous", warned)
        ELSE [raised |-> "none", warned |-> warned, msg |-> ""]

\* checkQuantArgs(collective, dtype, beginSize, quant_a2a_embedding_dim,
\* blockingFlag): the exception it raises, if any, and whether it logged the
\* warning about the begin size.
checkQuantArgs(collective, dtype, beginSize, quant_a2a_embedding_dim, blockingFlag) ==
    LET warned == /\ collective \in {"all_to_all", "all_to_allv"}
                  /\ (beginSize \div 4) % quant_a2a_embedding_dim # 0
    IN  IF collective \notin {"all_to_all", "all_to_allv", "reduce", "all_reduce"}
        THEN NotImplementedError("collective", FALSE)
        ELSE IF collective \in {"all_to_all", "all_to_allv"} /\ blockingFlag # 1
        THEN NotImplementedError("synchronous", warned)
        ELSE IF dtype # "float32"
        THEN NotImplementedError("dtype", warned)
        ELSE [raised |-> "none", warned |-> warned, msg |-> ""]

\* The requests quantization is configured with: --quant-a2a-embedding-dim and
\* --z are restricted by the argument parser.
QuantDims == {32, 64}
BlockingFlags == {0, 1}

NoQuantCall ==
    [called |-> FALSE, collective |-> "", dtype |-> "", beginSize |-> 0,
     quant_a2a_embedding_dim |-> 0, blockingFlag |-> 0]
NoQuantRet == [raised |-> "notrun", warned |-> FALSE, msg |-> ""]

QuantInit ==
    /\ qaCall = NoQuantCall
    /\ qaRet = NoQuantRet

\* One call of checkQuantArgs; the next call replaces the result.
CheckQuantArgs(collective, dtype, beginSize, quant_a2a_embedding_dim, blockingFlag) ==
    /\ qaCall' = [called |-> TRUE, collective |-> collective, dtype |-> dtype,
                  beginSize |-> beginSize,
                  quant_a2a_embedding_dim |-> quant_a2a_embedding_dim,
                  blockingFlag |-> blockingFlag]
    /\ qaRet' = checkQuantArgs(collective, dtype, beginSize,
                               quant_a2a_embedding_dim, blockingFlag)

\* No utility function has been called.
UtilIdle == QuantInit /\ BusInit /\ SizesInit /\ FixInit /\ RankInit /\ TimerInit /\ ValInit

----------------------------------------------------------------------------
(* Specifications *)

NameNext1 ==
    /\ ~nmCall1.called
    /\ \E n \in RequestedNames, supp \in {{None}, Names(BaseComms)} : NameCall1(n, supp)
    /\ UNCHANGED <<prepVars, checkVars, bwVars, guardVars, utilVars>>

NameNext2 ==
    /\ nmCall1.called
    /\ ~nmCall2.called
    /\ \E n \in RequestedNames : NameCall2(n)
    /\ UNCHANGED <<prepVars, checkVars, bwVars, guardVars, utilVars>>

NameNextAgain ==
    /\ NameCallAgain
    /\ UNCHANGED <<prepVars, checkVars, bwVars, guardVars, utilVars>>

\* paramToCommName alone.
InitName == NameInit /\ PrepIdle /\ CheckIdle /\ BwInit /\ GuardIdle /\ UtilIdle
NextName == NameNext1 \/ NameNext2 \/ NameNextAgain
SpecName == InitName /\ [][NextName]_vars

\* The staging dispatcher.
Init == PrepInit /\ NameInit /\ CheckIdle /\ BwInit /\ GuardIdle /\ UtilIdle
Next == PrepNext /\ UNCHANGED <<nameVars, checkVars, bwVars, guardVars, utilVars>>
Spec == Init /\ [][Next]_vars

\* One benchmark object stages two operations one after the other, as a
\* replayed trace does: one operation of every staging strategy, sizes below
\* and above the world size, explicit splits for all_to_allv only.
RestageNames ==
    {Chars(s) : s \in {"all_to_allv", "all_to_all", "all_reduce", "all_gather",
                       "all_gather_base", "reduce_scatter", "reduce_scatter_base",
                       "incast", "pt2pt", "barrier"}}
InitRestage ==
    /\ PrepInit /\ collectiveFunc = ExtendedComms
    /\ NameInit /\ CheckIdle /\ BwInit /\ GuardIdle /\ UtilIdle
NextRestage ==
    /\ ~prepPrev.call.called
    /\ \E n \in RestageNames, splits \in BOOLEAN, i \in {1, MaxMsg}, o \in {1, MaxMsg},
          allocate \in BOOLEAN :
          /\ splits => n = Chars("all_to_allv")
          /\ PrepComm([comms |-> n, inMsgSize |-> i, outMsgSize |-> o,
                       inSplit |-> IF splits THEN ExplicitSplit(i, world_size) ELSE NoneSplit,
                       outSplit |-> IF splits THEN ExplicitSplit(o, world_size) ELSE NoneSplit],
                      [collective |-> None, dtype |-> "float32", dcheck |-> 0],
                      allocate)
    /\ UNCHANGED <<nameVars, checkVars, bwVars, guardVars, utilVars>>
SpecRestage == InitRestage /\ [][NextRestage]_vars

CheckStage == CkStage /\ UNCHANGED <<nameVars, prepVars, bwVars, guardVars, utilVars>>
CheckCollective ==
    /\ \E fill \in 0..initVal : CkCollective(fill)
    /\ UNCHANGED <<nameVars, prepVars, bwVars, guardVars, utilVars>>
CheckCorrupt ==
    /\ \E b \in 1..(MaxCkWorld + 1), i \in 1..(MaxCkWorld * MaxPerRank), v \in 0..initVal :
          CkCorrupt(b, i, v)
    /\ UNCHANGED <<nameVars, prepVars, bwVars, guardVars, utilVars>>
CheckDcheck == CkDcheck /\ UNCHANGED <<nameVars, prepVars, bwVars, guardVars, utilVars>>

\* Staging, collective and validation of one run.
InitCheck == CheckInit /\ NameInit /\ PrepIdle /\ BwInit /\ GuardIdle /\ UtilIdle
NextCheck == CheckStage \/ CheckCollective \/ CheckCorrupt \/ CheckDcheck
SpecCheck == InitCheck /\ [][NextCheck]_vars

\* getAlgBW on the measurements of a run.
InitBW == BwInit /\ NameInit /\ PrepIdle /\ CheckIdle /\ GuardIdle /\ UtilIdle
NextBW ==
    /\ \E e \in 0..MaxElapsed, d \in 0..MaxData, n \in 0..MaxIters : GetAlgBW(e, d, n)
    /\ UNCHANGED <<nameVars, prepVars, checkVars, guardVars, utilVars>>
SpecBW == InitBW /\ [][NextBW]_vars

GuardEnter ==
    (\E st \in Streams : SgEnter(st)) /\ UNCHANGED <<nameVars, prepVars, checkVars, bwVars, utilVars>>
GuardRaise == SgRaise /\ UNCHANGED <<nameVars, prepVars, checkVars, bwVars, utilVars>>
GuardExit == SgExit /\ UNCHANGED <<nameVars, prepVars, checkVars, bwVars, utilVars>>
GuardHandle == SgHandle /\ UNCHANGED <<nameVars, prepVars, checkVars, bwVars, utilVars>>

\* Guarded blocks.
InitGuard == GuardInit /\ NameInit /\ PrepIdle /\ CheckIdle /\ BwInit /\ UtilIdle
NextGuard == GuardEnter \/ GuardRaise \/ GuardExit \/ GuardHandle
SpecGuard == InitGuard /\ [][NextGuard]_vars

\* checkQuantArgs on the quantization arguments of a run.
InitQuant == NameInit /\ PrepIdle /\ CheckIdle /\ BwInit /\ GuardIdle /\ UtilIdle
NextQuant ==
    /\ \E c \in BaseComms \cup {"pt2pt"},
          dt \in {"float32", "float16", "int32", "bool"},
          b \in {0, 128, 256, 384}, dim \in QuantDims, z \in BlockingFlags :
          CheckQuantArgs(c, dt, b, dim, z)
    /\ UNCHANGED <<nameVars, prepVars, checkVars, bwVars, guardVars, busVars, sizesVars, fixVars, rankVars, timerVars, valVars>>
SpecQuant == InitQuant /\ [][NextQuant]_vars

\* getBusBW on the bandwidth of a run.
InitBus == NameInit /\ PrepIdle /\ CheckIdle /\ BwInit /\ GuardIdle /\ UtilIdle
NextBus ==
    /\ \E c \in BaseComms \cup {"pt2pt"}, n \in 0..MaxAlgBW, d \in 1..MaxAlgBW,
          ws \in 0..MaxBusWorld :
          GetBusBW(c, Frac(n, d), ws)
    /\ UNCHANGED <<nameVars, prepVars, checkVars, bwVars, guardVars, quantVars, sizesVars, fixVars, rankVars, timerVars, valVars>>
SpecBus == InitBus /\ [][NextBus]_vars

\* getSizes on the sweep arguments of a run.
InitSizes == NameInit /\ PrepIdle /\ CheckIdle /\ BwInit /\ GuardIdle /\ UtilIdle
NextSizes ==
    /\ ~szCall.called
    /\ \E b \in 0..MaxSize, e \in 0..MaxSize, f \in 0..MaxStepFactor,
          sb \in (0 - 1)..MaxStepBytes :
          GetSizes(b, e, f, sb)
    /\ UNCHANGED <<nameVars, prepVars, checkVars, bwVars, guardVars, quantVars, busVars, fixVars, rankVars, timerVars, valVars>>
SpecSizes == InitSizes /\ [][NextSizes]_vars

\* fixBeginSize on the parameters of a run: element sizes of 1 and 2 bytes,
\* a quantized and an unquantized bit width.
InitFix == NameInit /\ PrepIdle /\ CheckIdle /\ BwInit /\ GuardIdle /\ UtilIdle
NextFix ==
    /\ ~fbCall.called
    /\ \E c \in BaseComms \cup {"pt2pt"}, b \in 0..MaxBegin, es \in {1, 2},
          bw \in {16, 32}, dim \in QuantDims, ws \in 1..MaxFixWorld :
          FixBeginSize([collective |-> c, beginSize |-> b, element_size |-> es,
                        bitwidth |-> bw, quant_a2a_embedding_dim |-> dim], ws)
    /\ UNCHANGED <<nameVars, prepVars, checkVars, bwVars, guardVars, quantVars, busVars, sizesVars, rankVars, timerVars, valVars>>
SpecFix == InitFix /\ [][NextFix]_vars

\* parseRankList on the rank-list arguments of a run.
InitRank == NameInit /\ PrepIdle /\ CheckIdle /\ BwInit /\ GuardIdle /\ UtilIdle
NextRank ==
    /\ ~rlCall.called
    /\ \E n \in 0..MaxStrLen, ws \in 1..MaxRankWorld :
          \E str \in [1..n -> RankChars] : ParseRankList(str, ws)
    /\ UNCHANGED <<nameVars, prepVars, checkVars, bwVars, guardVars, quantVars, busVars, sizesVars, fixVars, timerVars, valVars>>
SpecRank == InitRank /\ [][NextRank]_vars

\* A program using one paramTimer and paramProfile blocks.
InitTimer == NameInit /\ PrepIdle /\ CheckIdle /\ BwInit /\ GuardIdle /\ UtilIdle
TimerResets == TimerResetDefault \/ \E t \in 0..MaxTimeNS : TimerReset(t)
TimerIncrs == \E d \in 0..MaxTimeNS : TimerIncr(d)
ProfileEnters == \E timed \in BOOLEAN : ProfileEnter(timed)
ProfileExits == \E exc \in BOOLEAN : ProfileExit(exc)
NextTimer ==
    /\ TimerResets \/ TimerIncrs \/ ClockTick \/ ProfileEnters \/ ProfileExits
    /\ UNCHANGED <<nameVars, prepVars, checkVars, bwVars, guardVars, quantVars, busVars, sizesVars, fixVars, rankVars, valVars>>
SpecTimer == InitTimer /\ [][NextTimer]_vars

\* setTensorVal on a buffer staged for the collective of the run.
InitSetVal == NameInit /\ PrepIdle /\ CheckIdle /\ BwInit /\ GuardIdle /\ UtilIdle
NextSetVal ==
    /\ ~stCall.called
    /\ \E c \in BaseComms \ {"barrier", "noop"}, rank \in 0..(MaxValWorld - 1),
          root \in 0..(MaxValWorld - 1), u \in BOOLEAN, rand \in RandVals :
          \E t \in StagedShapes(c) :
             SetTensorVal([initVal |-> initVal, collective |-> c, srcOrDst |-> root,
                           global_rank |-> rank], t, u, rand)
    /\ UNCHANGED <<nameVars, prepVars, checkVars, bwVars, guardVars, quantVars, busVars, sizesVars, fixVars, rankVars, timerVars>>
SpecSetVal == InitSetVal /\ [][NextSetVal]_vars

----------------------------------------------------------------------------
(* Properties of the staging dispatcher (Spec) *)

\* The name the last prepComm call was asked for.
RequestedName ==
    IF prepCall.curComm.comms # None THEN prepCall.curComm.comms
                                     ELSE prepCall.commsParams.collective

\* Whether that name, after alias normalisation, is one the backend supports.
RequestSupported == aliasedName(RequestedName) \in Names(collectiveFunc)

\* The operation staged: the literal the normalised name spells.
StagedOp == Text(aliasedName(RequestedName))

\* The total output element count each operation is staged with.
OutputCount(op, numIn, numOut, ws, nsrc) ==
    CASE op \in {"all_to_allv", "pt2pt"} -> numOut
      [] op = "all_to_all" -> ws * (numOut \div ws)
      [] op \in {"all_gather", "gather"} -> ws * (numIn \div ws)
      [] op = "all_gather_base" -> numIn
      [] op = "incast" -> nsrc * numOut
      [] op \in {"reduce_scatter", "scatter", "reduce_scatter_base"} -> numOut \div ws
      [] op \in {"wait", "barrier"} -> 0
      [] OTHER -> numIn

C2_UnsupportedExitsBeforeAllocation ==
    (prepCall.called /\ ~RequestSupported)
        => /\ prepRet.exited
           /\ prepRet.msg.name = RequestedName
           /\ prepRet.msg.text # ""
           /\ allocLog = <<>>
           /\ prepRet.ipTensor = EmptyList /\ prepRet.opTensor = EmptyList

\* An unsupported name requested with allocate=True and validation on.
C2_Witness ==
    /\ prepCall.called /\ ~RequestSupported
    /\ prepCall.allocate
    /\ prepCall.curComm.inMsgSize > 0
    /\ prepRet.exited

SplitOrFlatOps ==
    {"all_to_all", "all_to_allv", "all_gather", "all_gather_base", "gather",
     "reduce_scatter", "reduce_scatter_base", "scatter"}

\* C3: staging a split or flat collective whose element count is not
\* divisible by the world size is reported as a configuration error before any
\* buffer is allocated.
C3_IndivisibleIsAnError ==
    (/\ prepCall.called /\ prepCall.allocate /\ RequestSupported
     /\ StagedOp \in SplitOrFlatOps
     /\ prepCall.curComm.inMsgSize % world_size # 0
     /\ prepCall.curComm.outMsgSize % world_size # 0)
        => prepRet.exited /\ allocLog = <<>>

----------------------------------------------------------------------------
(* Properties of paramToCommName (SpecName) *)

\* C4: alias normalisation is idempotent: normalising a name that
\* paramToCommName returned gives that name again, and accepts it.
C4_NormalizationIdempotent ==
    (/\ nmCall1.called /\ ~nmRet1.exited
     /\ nmCall2.called /\ nmCall2.name = nmRet1.new_name)
        => ~nmRet2.exited /\ nmRet2.new_name = nmRet1.new_name

\* An alias that was rewritten, normalised a second time.
C4_Witness ==
    /\ nmCall1.called /\ ~nmRet1.exited
    /\ nmRet1.new_name # nmCall1.name
    /\ nmCall2.called /\ nmCall2.name = nmRet1.new_name
    /\ nmCall1.supported_comms # {None}

\* C5: two requested names that differ only in letter case or in
\* non-alphabetic characters are normalised to the same name and are both
\* accepted or both rejected.
C5_CaseAndPunctuationInsensitive ==
    (/\ nmCall1.called /\ nmCall2.called
     /\ alphaOnly(lower(nmCall1.name)) = alphaOnly(lower(nmCall2.name)))
        => /\ nmRet1.new_name = nmRet2.new_name
           /\ nmRet1.exited = nmRet2.exited

----------------------------------------------------------------------------
(* Properties of getAlgBW (SpecBW) *)

\* C6: getAlgBW never divides by zero; with numIters = 0 the average time and
\* the bandwidth are 0, with an average time of 0 the bandwidth is 0, and
\* otherwise the average is elapsedTimeNS / numIters and the bandwidth is
\* dataSize / average.
C6_AlgBW ==
    bwCall.called =>
        /\ ~bwRet.raised
        /\ bwRet.avgIterNS.den > 0 /\ bwRet.algBW.den > 0
        /\ bwCall.numIters = 0 => (bwRet.avgIterNS.num = 0 /\ bwRet.algBW.num = 0)
        /\ bwRet.avgIterNS.num = 0 => bwRet.algBW.num = 0
        /\ bwCall.numIters # 0 =>
              bwRet.avgIterNS.num * bwCall.numIters
                  = bwCall.elapsedTimeNS * bwRet.avgIterNS.den
        /\ bwRet.avgIterNS.num # 0 =>
              bwRet.algBW.num * bwRet.avgIterNS.num
                  = bwCall.dataSize * bwRet.avgIterNS.den * bwRet.algBW.den

\* Time was measured and data moved, yet zero iterations were requested.
C6_Witness ==
    /\ bwCall.called
    /\ bwCall.numIters = 0 /\ bwCall.elapsedTimeNS > 0 /\ bwCall.dataSize > 0
    /\ ~bwRet.raised
    /\ bwRet.avgIterNS.num = 0 /\ bwRet.algBW.num = 0

----------------------------------------------------------------------------
(* Properties of validation (SpecCheck) *)

\* Every element of the result the validation is given equals v.
EveryElementIs(v) ==
    \A b \in 1..Len(ckOut.data) : \A i \in 1..Len(ckOut.data[b]) :
        ckOut.data[b][i] = v

\* The value a sum over the world of the staged elements has.
ReducedValue == IF ckOut.dtype = "bool" THEN initVal ELSE ckCfg.ws * initVal

\* The value the validated result is expected to hold on this rank.
ExpectedValue == IF ReducesHere(ckCfg) THEN ReducedValue ELSE initVal

\* The ranks the validation exempts.
RankExempt ==
    \/ /\ ckCfg.collective \in {"incast", "reduce", "gather"}
       /\ ckCfg.rank # ckCfg.srcOrDst
    \/ /\ ckCfg.collective \in {"multicast", "pt2pt"}
       /\ ckCfg.rank \notin ckCfg.dst_ranks

\* The positions <<buffer, element>> (from 1) that differ from the expected value.
Mismatches ==
    {p \in (1..Len(ckOut.data)) \X (1..(MaxCkWorld * MaxPerRank + 1)) :
        /\ p[2] <= Len(ckOut.data[p[1]])
        /\ ckOut.data[p[1]][p[2]] # ExpectedValue}

\* The first of them in buffer order, then element order.
FirstMismatch ==
    CHOOSE p \in Mismatches :
        \A q \in Mismatches : p[1] < q[1] \/ (p[1] = q[1] /\ p[2] <= q[2])

\* C7: with validation on, the result of a reduction-style operation (on
\* every rank for all_reduce, reduce_scatter and reduce_scatter_base, on the
\* root for reduce) has every element equal to world_size * initVal, or to
\* initVal for bool, and dcheck accepts a result exactly when every element
\* has that value.
C7_ReductionValidated ==
    (ReducesHere(ckCfg) /\ ckPc \in {"done", "checked"}) =>
        /\ ckOut.data # <<>>
        /\ ckFaults = {} => EveryElementIs(ReducedValue)
        /\ ckPc = "checked" =>
              (ckRes.raised = "none" <=> EveryElementIs(ReducedValue))
        /\ ckPc = "checked" => ckRes.raised \in {"none", "ValueError"}

\* A sum of bools over two ranks, validated and accepted.
C7_Witness ==
    /\ ckPc = "checked" /\ ReducesHere(ckCfg)
    /\ ckCfg.ws = 2 /\ ckOut.dtype = "bool"
    /\ ckFaults = {}
    /\ ckRes.raised = "none" /\ ~ckRes.skipped

\* C9: on a rank that is not exempt, dcheck raises a ValueError carrying the
\* first mismatching position (buffer and element index for a list, element
\* index for a single buffer), the value found there and the expected value
\* when some element differs from the expected value, and returns without
\* error when none does.
C9_FirstMismatchReported ==
    (ckPc = "checked" /\ ~RankExempt) =>
        IF Mismatches # {}
        THEN /\ ckRes.raised = "ValueError"
             /\ ckRes.pos = (IF ckOut.isList
                             THEN <<FirstMismatch[1] - 1, FirstMismatch[2] - 1>>
                             ELSE <<FirstMismatch[2] - 1>>)
             /\ ckRes.actual = ckOut.data[FirstMismatch[1]][FirstMismatch[2]]
             /\ ckRes.expected = ExpectedValue
        ELSE ckRes.raised = "none" /\ ~ckRes.skipped

\* Two wrong elements in one buffer of a list, the later buffer of the list.
C9_Witness ==
    /\ ckPc = "checked" /\ ~RankExempt
    /\ ckOut.isList
    /\ Cardinality(Mismatches) = 2
    /\ FirstMismatch = <<2, 1>>
    /\ ckRes.raised = "ValueError"
    /\ ckRes.pos = <<1, 0>>

\* C10: dcheck returns without checking, whatever the result holds, on every
\* rank but the root for incast, reduce and gather and on every rank outside
\* dst_ranks for multicast and pt2pt; on the root, or on a destination rank,
\* the check is made.
C10_ExemptRanksSkip ==
    /\ (ckPc = "checked" /\ RankExempt) =>
          ckRes.raised = "none" /\ ckRes.skipped
    /\ (/\ ckPc = "checked" /\ ~RankExempt
        /\ ckCfg.collective \in {"incast", "reduce", "gather", "multicast", "pt2pt"}) =>
          /\ ~ckRes.skipped
          /\ ckRes.raised = (IF Mismatches # {} THEN "ValueError" ELSE "none")

\* A rank that is not the root of a gather returns from the check with wrong
\* elements in its buffers.
C10_Witness ==
    /\ ckPc = "checked" /\ RankExempt
    /\ ckCfg.collective = "gather"
    /\ Mismatches # {}
    /\ ckRes.raised = "none" /\ ckRes.skipped

----------------------------------------------------------------------------
(* Properties of paramStreamGuard (SpecGuard) *)

\* C8: entering a guarded block makes the guarded stream current; when the
\* block ends, normally or by an exception, the stream that was current before
\* entry is current again, and an exception raised in the block still
\* propagates.
C8_ScopedStreamSwitch ==
    /\ sgLast.op = "enter" =>
          /\ sgCur = sgLast.guard.stream
          /\ sgStack[Len(sgStack)].before = sgLast.before
    /\ sgLast.op = "exit" =>
          /\ sgCur = sgLast.before
          /\ sgExc = sgLast.excBefore

\* A block left by an exception, entered from another stream than it guards.
C8_Witness ==
    /\ sgLast.op = "exit"
    /\ sgLast.excBefore
    /\ sgLast.before # sgLast.guard.stream
    /\ sgCur = sgLast.before
    /\ sgExc

----------------------------------------------------------------------------
(* Properties of checkQuantArgs (SpecQuant) *)

QuantizedCollectives == {"all_to_all", "all_to_allv", "reduce", "all_reduce"}

\* C11: checkQuantArgs raises NotImplementedError for every collective
\* other than all_to_all, all_to_allv, reduce and all_reduce and for every
\* dtype other than float32, and accepts a float32 request for one of the four
\* made in synchronous mode.
C11_QuantRejectsCollectiveAndDtype ==
    qaCall.called =>
        /\ qaCall.collective \notin QuantizedCollectives
              => qaRet.raised = "NotImplementedError"
        /\ qaCall.dtype # "float32" => qaRet.raised = "NotImplementedError"
        /\ (/\ qaCall.collective \in QuantizedCollectives
            /\ qaCall.dtype = "float32"
            /\ qaCall.blockingFlag = 1) => qaRet.raised = "none"

\* A reduce of another dtype is rejected for its dtype alone.
C11_Witness ==
    /\ qaCall.called
    /\ qaCall.collective = "reduce" /\ qaCall.blockingFlag = 1
    /\ qaCall.dtype = "float16"
    /\ qaRet = NotImplementedError("dtype", FALSE)

\* C12: checkQuantArgs rejects every request made in non-synchronous mode
\* (blockingFlag different from 1), whichever collective is requested.
C12_QuantRejectsNonBlocking ==
    (qaCall.called /\ qaCall.blockingFlag # 1)
        => qaRet.raised = "NotImplementedError"

----------------------------------------------------------------------------
(* Further properties of the staging dispatcher (Spec) *)

\* The last call staged a supported operation and allocated its buffers.
StagedWithBuffers == prepCall.called /\ prepCall.allocate /\ RequestSupported

\* C13: with validation on (dcheck = 1) and allocate=True, every input
\* buffer prepComm returns, for every supported operation, was made by
\* alloc_ones scaled by initVal, so that every element is initVal, and none by
\* alloc_random.
C13_ValidationInputsAreOnes ==
    (StagedWithBuffers /\ prepCall.commsParams.dcheck = 1) =>
        \A i \in 1..Len(prepRet.ipTensor.items) :
            /\ prepRet.ipTensor.items[i].fn = "alloc_ones"
            /\ prepRet.ipTensor.items[i].scaleFactor = initVal
            /\ onesValue(prepRet.ipTensor.items[i]) = initVal

\* An all_to_all staged for validation on two ranks: two input buffers.
C13_Witness ==
    /\ StagedWithBuffers /\ prepCall.commsParams.dcheck = 1
    /\ StagedOp = "all_to_all"
    /\ world_size = 2
    /\ prepCall.curComm.inMsgSize = 2
    /\ Len(prepRet.ipTensor.items) = 2
    /\ prepRet.ipTensor.items[2].fn = "alloc_ones"

\* The operations the staging table has an entry for.
TableOps ==
    {"all_to_allv", "all_to_all", "all_gather", "gather", "all_gather_base",
     "incast", "reduce_scatter", "reduce_scatter_base", "scatter", "pt2pt"}

\* Input and output are one and the same buffer of inMsgSize elements, the
\* only one allocated.
SharesOneBuffer ==
    /\ prepRet.opTensor = prepRet.ipTensor
    /\ ~prepRet.ipTensor.isList
    /\ Len(prepRet.ipTensor.items) = 1
    /\ prepRet.ipTensor.items[1].numel = prepCall.curComm.inMsgSize
    /\ allocLog = prepRet.ipTensor.items

\* Nothing is staged: two empty lists, no allocation.
StagesNothing ==
    /\ prepRet.ipTensor = EmptyList
    /\ prepRet.opTensor = EmptyList
    /\ allocLog = <<>>

\* C14, as stated: for every supported operation without an entry in the
\* staging table, prepComm returns the same single buffer of inMsgSize elements
\* as input and output and allocates exactly one buffer.
C14_NoTableEntrySharesOneBuffer ==
    (prepCall.called /\ RequestSupported /\ StagedOp \notin TableOps)
        => SharesOneBuffer

\* C14, amended: for every supported operation without an entry in the
\* staging table other than barrier and wait, prepComm called with
\* allocate=True returns the same single buffer of inMsgSize elements as input
\* and output and allocates exactly one buffer; for barrier and wait, and with
\* allocate=False, it returns empty lists and allocates nothing.
C14_InPlaceSharesOneBuffer ==
    (prepCall.called /\ RequestSupported /\ StagedOp \notin TableOps) =>
        /\ ~prepRet.exited
        /\ IF prepCall.allocate /\ StagedOp \notin {"barrier", "wait"}
           THEN SharesOneBuffer
           ELSE StagesNothing

\* An all_reduce of three elements staged in place.
C14_Witness ==
    /\ StagedWithBuffers
    /\ StagedOp = "all_reduce"
    /\ prepCall.curComm.inMsgSize = 3
    /\ prepCall.curComm.outMsgSize = 1
    /\ SharesOneBuffer

\* C15: every alloc_random call made while staging an operation, by
\* prepComm and by every strategy, is given the scale factor
\* outMsgSize * outMsgSize.
C15_RandomScaleIsOutSquared ==
    prepCall.called =>
        \A i \in 1..Len(allocLog) :
            allocLog[i].fn = "alloc_random" =>
                allocLog[i].scaleFactor
                    = prepCall.curComm.outMsgSize * prepCall.curComm.outMsgSize

\* A pt2pt staged without validation: input and output both random.
C15_Witness ==
    /\ StagedWithBuffers
    /\ StagedOp = "pt2pt"
    /\ prepCall.curComm.outMsgSize = 2
    /\ Len(allocLog) = 2
    /\ \A i \in 1..2 : allocLog[i].fn = "alloc_random" /\ allocLog[i].scaleFactor = 4

\* The number of buffers: 1 for a single tensor, the length of a list.
BufferCount(buf) == Len(buf.items)

\* C16: with allocate=True, all_to_all returns world_size input and
\* world_size output buffers; all_gather and gather one input and world_size
\* outputs; reduce_scatter and scatter world_size inputs and one output;
\* all_gather_base, reduce_scatter_base, all_to_allv and pt2pt one input and
\* one output; incast one input and one output per source rank.
C16_BufferCounts ==
    StagedWithBuffers =>
        LET ins == BufferCount(prepRet.ipTensor)
            outs == BufferCount(prepRet.opTensor)
        IN  /\ StagedOp = "all_to_all" => ins = world_size /\ outs = world_size
            /\ StagedOp \in {"all_gather", "gather"} => ins = 1 /\ outs = world_size
            /\ StagedOp \in {"reduce_scatter", "scatter"} => ins = world_size /\ outs = 1
            /\ StagedOp \in {"all_gather_base", "reduce_scatter_base",
                             "all_to_allv", "pt2pt"} => ins = 1 /\ outs = 1
            /\ StagedOp = "incast" => ins = 1 /\ outs = Len(src_ranks)

\* A gather on three ranks: one input buffer, three output buffers.
C16_Witness ==
    /\ StagedWithBuffers
    /\ StagedOp = "gather"
    /\ world_size = 3
    /\ BufferCount(prepRet.ipTensor) = 1
    /\ BufferCount(prepRet.opTensor) = 3
    /\ prepRet.opTensor.isList

----------------------------------------------------------------------------
(* Properties of getBusBW (SpecBus) *)

\* The factor [num, den] of a collective on n ranks.
BusFactor(collective, n) ==
    IF n = 0 THEN <<1, 1>>
    ELSE IF collective = "all_reduce" THEN <<2 * (n - 1), n>>
    ELSE IF collective \in {"all_to_all", "all_to_allv", "gather", "all_gather",
                            "reduce_scatter", "reduce_scatter_base", "scatter",
                            "all_gather_base"}
    THEN <<n - 1, n>>
    ELSE <<1, 1>>

\* C17: getBusBW returns algBW * 2(n-1)/n for all_reduce, algBW * (n-1)/n
\* for all_to_all, all_to_allv, gather, all_gather, reduce_scatter,
\* reduce_scatter_base, scatter and all_gather_base, and algBW for every other
\* name, n being the world size; with n = 0 the factor is 1 and nothing is
\* divided by zero.
C17_BusBW ==
    busCall.called =>
        LET f == BusFactor(busCall.collective, busCall.world_size)
        IN  /\ ~busRet.raised
            /\ busRet.busBW.den > 0
            /\ busRet.busBW.num * busCall.algBW.den * f[2]
                   = busCall.algBW.num * f[1] * busRet.busBW.den

\* An all_reduce on three ranks: 3 GB/s algorithmic is 4 GB/s on the bus.
C17_Witness ==
    /\ busCall.called
    /\ busCall.collective = "all_reduce"
    /\ busCall.world_size = 3
    /\ busCall.algBW = Num(3)
    /\ busRet.busBW = Num(4)
    /\ ~busRet.raised

----------------------------------------------------------------------------
(* Properties of getSizes (SpecSizes) *)

\* C18: getSizes returns the empty list when beginSize > endSize; otherwise
\* the first size is beginSize, every size is at most endSize, and each later
\* size is the one before it times stepFactor when stepBytes is 0 and the one
\* before it plus stepBytes otherwise.
C18_SizesSweep ==
    szCall.called =>
        /\ szCall.beginSize > szCall.endSize => szRet = <<>>
        /\ szCall.beginSize <= szCall.endSize
              => Len(szRet) >= 1 /\ szRet[1] = szCall.beginSize
        /\ \A i \in 1..Len(szRet) : szRet[i] <= szCall.endSize
        /\ \A i \in 2..Len(szRet) :
              szRet[i] = (IF szCall.stepBytes = 0
                          THEN szRet[i - 1] * szCall.stepFactor
                          ELSE szRet[i - 1] + szCall.stepBytes)

\* Doubling from 1 to 4, the end size included.
C18_Witness ==
    /\ szCall.called
    /\ szCall.beginSize = 1 /\ szCall.endSize = 4
    /\ szCall.stepFactor = 2 /\ szCall.stepBytes = 0
    /\ szRet = <<1, 2, 4>>

----------------------------------------------------------------------------
(* Properties of fixBeginSize (SpecFix) *)

\* C19: fixBeginSize never decreases beginSize, and leaves
\* beginSize / element_size >= world_size and, with bitwidth < 32,
\* beginSize / element_size / world_size >= quant_a2a_embedding_dim for
\* all_to_all, all_to_allv, all_gather, all_gather_base, gather and
\* reduce_scatter_base; beginSize >= element_size for all_reduce and reduce;
\* and beginSize unchanged for every other collective.  (element_size and
\* world_size are positive, so the quotients are compared by products.)
C19_BeginSizeFixed ==
    fbCall.called =>
        LET old == fbCall.commsParams
            new == fbRet.commsParams
        IN  /\ ~fbRet.raised
            /\ new = [old EXCEPT !.beginSize = new.beginSize]
            /\ new.beginSize >= old.beginSize
            /\ old.collective \in {"all_to_all", "all_to_allv", "all_gather",
                                   "all_gather_base", "gather", "reduce_scatter_base"}
                  => /\ new.beginSize >= fbCall.world_size * new.element_size
                     /\ new.bitwidth < 32
                           => new.beginSize >= new.quant_a2a_embedding_dim
                                                 * fbCall.world_size * new.element_size
            /\ old.collective \in {"all_reduce", "reduce"}
                  => new.beginSize >= new.element_size
            /\ old.collective \notin {"all_to_all", "all_to_allv", "all_gather",
                                      "all_gather_base", "gather",
                                      "reduce_scatter_base", "all_reduce", "reduce"}
                  => new.beginSize = old.beginSize

\* A quantized all_to_all with too small a begin size on two ranks: raised to
\* one element per rank, then to the embedding dimension per rank.
C19_Witness ==
    /\ fbCall.called
    /\ fbCall.commsParams.collective = "all_to_all"
    /\ fbCall.commsParams.bitwidth = 16
    /\ fbCall.commsParams.beginSize = 3
    /\ fbCall.commsParams.element_size = 2
    /\ fbCall.commsParams.quant_a2a_embedding_dim = 32
    /\ fbCall.world_size = 2
    /\ fbRet.commsParams.beginSize = 128

----------------------------------------------------------------------------
(* Properties of parseRankList (SpecRank) *)

\* The position of the first occurrence of v in xs.
FirstAt(xs, v) == CHOOSE i \in 1..Len(xs) : xs[i] = v /\ \A j \in 1..(i - 1) : xs[j] # v

\* The fields of the input, when every one of them is an integer.
CommaFields == mapInt(split(rlCall.ipStr, ",")).vals
ColonFields == mapInt(split(rlCall.ipStr, ":")).vals

\* C20: for a non-empty input parseRankList returns a non-empty list whose
\* ranks r all satisfy 0 <= r < world_size, or the process ends (by
\* gracefulExit, or by the ValueError of int() on a field that is no integer,
\* which nothing catches); a comma-separated input yields its ranks without
\* duplicates in first-occurrence order, an input a:b the ranks a through b;
\* an empty input returns the empty list.
C20_RankListInRange ==
    rlCall.called =>
        LET L == rlRet.rankList
        IN  /\ rlRet.outcome \in {"return", "SystemExit", "ValueError"}
            /\ rlCall.ipStr = <<>> => rlRet.outcome = "return" /\ L = <<>>
            /\ rlRet.outcome = "ValueError" =>
                  \/ /\ found(rlCall.ipStr, ",")
                     /\ mapInt(split(rlCall.ipStr, ",")).raised
                  \/ /\ found(rlCall.ipStr, ":")
                     /\ mapInt(split(rlCall.ipStr, ":")).raised
            /\ (rlCall.ipStr # <<>> /\ rlRet.outcome = "return") =>
                  /\ L # <<>>
                  /\ \A i \in 1..Len(L) : 0 <= L[i] /\ L[i] < rlCall.world_size
                  /\ found(rlCall.ipStr, ",") =>
                        /\ \A i, j \in 1..Len(L) : i # j => L[i] # L[j]
                        /\ {L[i] : i \in 1..Len(L)}
                               = {CommaFields[i] : i \in 1..Len(CommaFields)}
                        /\ \A i, j \in 1..Len(L) :
                              i < j => FirstAt(CommaFields, L[i]) < FirstAt(CommaFields, L[j])
                  /\ (~found(rlCall.ipStr, ",") /\ found(rlCall.ipStr, ":")) =>
                        /\ L[1] = ColonFields[1]
                        /\ L[Len(L)] = ColonFields[2]
                        /\ \A i \in 2..Len(L) : L[i] = L[i - 1] + 1

\* "1,0,1" on two ranks: ranks 1 and 0, in that order.
C20_Witness ==
    /\ rlCall.called
    /\ rlCall.ipStr = <<"1", ",", "0", ",", "1">>
    /\ rlCall.world_size = 2
    /\ rlRet = [outcome |-> "return", rankList |-> <<1, 0>>]

----------------------------------------------------------------------------
(* Properties of paramTimer and paramProfile (SpecTimer) *)

\* C21: after any resets and increments getTimeNS is the argument of the
\* last reset (0 without one, or without argument) plus the sum of the
\* increments since, and getTimeUS is getTimeNS / 1000; the increments
\* counted are those of incrTimeNS calls and, for every paramProfile block
\* bound to the timer that has ended, by an exception too, its one interval.
C21_TimerAccumulates ==
    /\ getTimeNS(tmTimer) = tmHist.base + tmHist.sum
    /\ mul(getTimeUS(tmTimer), Num(1000)) = Num(getTimeNS(tmTimer))

\* A block bound to the timer ended by an exception one tick after it began,
\* on a timer reset to 2.
C21_Witness ==
    /\ tmLast = [ended |-> TRUE, exc |-> TRUE, timed |-> TRUE]
    /\ tmHist = [base |-> 2, sum |-> 1, incrs |-> 1, blocks |-> 1]
    /\ getTimeNS(tmTimer) = 3

----------------------------------------------------------------------------
(* Properties of setTensorVal (SpecSetVal) *)

\* Every element of the tensor, or of every tensor of the list, is initVal.
AllInitVal(tensor) ==
    IF tensor.list
    THEN \A i \in 1..Len(tensor.items) :
            \A j \in 1..Len(tensor.items[i].data) : tensor.items[i].data[j] = Num(initVal)
    ELSE \A j \in 1..Len(tensor.data) : tensor.data[j] = Num(initVal)

\* C22: on the buffers staged for a collective, setTensorVal with useRandVal
\* false sets every element of the buffer, and of every buffer of a list, to
\* initVal, for every collective and rank; for all_reduce and reduce it does
\* so whatever useRandVal is, and for broadcast and multicast so does the
\* root rank.
C22_InitValSet ==
    stCall.called =>
        /\ ~stCall.useRandVal => AllInitVal(stRet.tensor)
        /\ stCall.self.collective \in {"all_reduce", "reduce"} => AllInitVal(stRet.tensor)
        /\ (/\ stCall.self.collective \in {"broadcast", "multicast"}
            /\ stCall.self.global_rank = stCall.self.srcOrDst) => AllInitVal(stRet.tensor)
        /\ stRet.raised = "none" \/ (stCall.tensor.list /\ stCall.tensor.items = <<>>)

\* The root of a broadcast asked for random values has initVal in both
\* elements.
C22_Witness ==
    /\ stCall.called
    /\ stCall.self.collective = "broadcast"
    /\ stCall.self.global_rank = 1 /\ stCall.self.srcOrDst = 1
    /\ stCall.useRandVal /\ stCall.rand = Frac(3, 4)
    /\ stCall.tensor = StaleTensor("float32", 2)
    /\ stRet = [tensor |-> [list |-> FALSE, dtype |-> "float32",
                            data |-> <<Num(initVal), Num(initVal)>>],
                raised |-> "none"]

----------------------------------------------------------------------------
(* The length of the sweep of getSizes (SpecSizes) *)

\* C23: for every input, a sweep that does not advance included (stepFactor
\* 0 or 1 with stepBytes 0, a negative stepBytes), getSizes returns, and the
\* list it returns has at most maxIters entries.
C23_SizesAtMostMaxIters ==
    szCall.called => Len(szRet) <= maxIters

----------------------------------------------------------------------------
(* Properties of staging: splits, allocations and frames (Spec, SpecRestage) *)

RECURSIVE SumSplit(_)
SumSplit(sizes) == IF sizes = <<>> THEN 0 ELSE Head(sizes) + SumSplit(Tail(sizes))

\* C24: after all_to_allv is staged without explicit splits, ipTensor_split
\* and opTensor_split have world_size entries each and sum to inMsgSize and
\* to outMsgSize; explicit splits are attached unchanged.
C24_SplitsCoverBuffers ==
    (prepCall.called /\ RequestSupported /\ StagedOp = "all_to_allv") =>
        /\ prepCall.curComm.inSplit = NoneSplit =>
              /\ Len(ipTensor_split) = world_size
              /\ SumSplit(ipTensor_split) = prepCall.curComm.inMsgSize
        /\ prepCall.curComm.outSplit = NoneSplit =>
              /\ Len(opTensor_split) = world_size
              /\ SumSplit(opTensor_split) = prepCall.curComm.outMsgSize
        /\ prepCall.curComm.inSplit # NoneSplit => ipTensor_split = prepCall.curComm.inSplit
        /\ prepCall.curComm.outSplit # NoneSplit => opTensor_split = prepCall.curComm.outSplit

\* The tensors of the buffer pair the last call returned.
Returned == prepRet.ipTensor.items \o prepRet.opTensor.items

\* C25: every buffer prepComm obtained from the backend during the call is
\* part of the pair of buffers it returns.
C25_NoBufferDiscarded ==
    (prepCall.called /\ RequestSupported) =>
        \A i \in 1..Len(allocLog) : \E j \in 1..Len(Returned) : Returned[j] = allocLog[i]

\* collectiveArgs as the last call left it.
CollectiveArgs ==
    [world_size |-> world_size, src_ranks |-> src_ranks,
     ipTensor_split |-> ipTensor_split, opTensor_split |-> opTensor_split]

\* C26: prepComm with allocate=False makes no backend allocation call and
\* returns an empty input and an empty output, for every supported
\* operation, and changes nothing but, for all_to_allv, the split metadata.
C26_NoAllocationWithoutAllocate ==
    (prepCall.called /\ ~prepCall.allocate /\ RequestSupported) =>
        /\ ~prepRet.exited
        /\ allocLog = <<>>
        /\ prepRet.ipTensor = EmptyList /\ prepRet.opTensor = EmptyList
        /\ world_size = prepPrev.collectiveArgs.world_size
        /\ src_ranks = prepPrev.collectiveArgs.src_ranks
        /\ StagedOp # "all_to_allv" => CollectiveArgs = prepPrev.collectiveArgs

\* An incast staged without allocation after an all_to_allv that attached
\* splits: nothing allocated, the splits still attached.
C26_Witness ==
    /\ prepCall.called /\ ~prepCall.allocate /\ RequestSupported
    /\ StagedOp = "incast"
    /\ prepPrev.call.called /\ prepPrev.call.allocate
    /\ Len(ipTensor_split) = world_size /\ world_size = 2
    /\ allocLog = <<>>

\* C27: prepComm for an operation other than all_to_allv leaves
\* collectiveArgs as it was, ipTensor_split and opTensor_split included: the
\* splits an earlier all_to_allv attached stay attached.
C27_OtherOpsKeepCollectiveArgs ==
    (prepCall.called /\ RequestSupported /\ StagedOp # "all_to_allv") =>
        CollectiveArgs = prepPrev.collectiveArgs

\* An all_gather staged with buffers after an all_to_allv of MaxMsg elements
\* on two ranks: the splits of the all_to_allv are still attached.
C27_Witness ==
    /\ prepCall.called /\ prepCall.allocate /\ RequestSupported
    /\ StagedOp = "all_gather"
    /\ prepPrev.call.called
    /\ prepPrev.call.curComm.comms = Chars("all_to_allv")
    /\ prepPrev.call.curComm.inSplit = NoneSplit
    /\ prepPrev.call.curComm.inMsgSize = MaxMsg
    /\ world_size = 2
    /\ ipTensor_split = Repeat(MaxMsg \div 2, 2)

\* The shape of a staged buffer: whether it is a list, and the element count
\* of every tensor.
Shape(buf) ==
    [isList |-> buf.isList,
     sizes |-> [i \in 1..Len(buf.items) |-> buf.items[i].numel]]

\* The last two stagings differ in outMsgSize only, and in inMsgSize only.
OnlyOutDiffers ==
    /\ prepPrev.call.called
    /\ prepPrev.call.curComm.outMsgSize # prepCall.curComm.outMsgSize
    /\ prepPrev.call =
          [prepCall EXCEPT !.curComm.outMsgSize = prepPrev.call.curComm.outMsgSize]
OnlyInDiffers ==
    /\ prepPrev.call.called
    /\ prepPrev.call.curComm.inMsgSize # prepCall.curComm.inMsgSize
    /\ prepPrev.call =
          [prepCall EXCEPT !.curComm.inMsgSize = prepPrev.call.curComm.inMsgSize]

SameInputShape == Shape(prepRet.ipTensor) = Shape(prepPrev.ret.ipTensor)
SameOutputShape == Shape(prepRet.opTensor) = Shape(prepPrev.ret.opTensor)

InputFromOut == StagedOp \in {"reduce_scatter", "scatter", "reduce_scatter_base"}
OutputFromIn ==
    StagedOp \in {"all_gather", "gather", "all_gather_base"} \/ StagedOp \notin TableOps

====
